---- MODULE Spec2Model ----
(***************************************************************************)
(* Model of the LinkedIn profile extraction engine                         *)
(* (src/src/lib/linkedin-extractor.ts).                                    *)
(*                                                                         *)
(* Text is a sequence of one-character strings.  The document is a         *)
(* function from selector strings to the outcome of querying the document  *)
(* with that selector: the query raises, or it yields the matched elements *)
(* in document order.  An element carries its textContent, its src/href    *)
(* attribute and, for a section, the elements its item query yields.       *)
(***************************************************************************)
EXTENDS Integers, Sequences, FiniteSets, TLC

VARIABLES doc, href, out, prev, locals, panel, client

vars == <<doc, href, out, prev, locals, panel, client>>

(***************************************************************************)
(* Values of the host language                                             *)
(***************************************************************************)

\* `undefined`: an absent optional value.  Not a text: its one element is no character.
undefined == <<"undefined">>

\* `null`: no element.
Null == [null |-> TRUE]

\* The falsy test of `x || y` and `if (x)` on a string or undefined.
Truthy(x) == x # undefined /\ x # <<>>

\* x || y
Or(x, y) == IF Truthy(x) THEN x ELSE y

(***************************************************************************)
(* String primitives                                                       *)
(***************************************************************************)

\* The characters the regular expression class \s and String.trim treat as white space.
WhiteSpace == {" ", "\t", "\n"}

\* Characters outside ASCII are named by their code point.
MiddleDot == "U+00B7"

EnDash == "U+2013"

UpperCase == << "A", "B", "C", "D", "E", "F", "G", "H", "I", "J", "K", "L", "M",
                "N", "O", "P", "Q", "R", "S", "T", "U", "V", "W", "X", "Y", "Z" >>

LowerCase == << "a", "b", "c", "d", "e", "f", "g", "h", "i", "j", "k", "l", "m",
                "n", "o", "p", "q", "r", "s", "t", "u", "v", "w", "x", "y", "z" >>

Digits == {"0", "1", "2", "3", "4", "5", "6", "7", "8", "9"}

\* The regular expression class \w.
WordChars == {UpperCase[k] : k \in 1..26} \cup {LowerCase[k] : k \in 1..26} \cup Digits \cup {"_"}

\* The characters the regular expression `.` does not match.
LineTerminators == {"\n"}

lowerChar(c) ==
  IF \E k \in 1..26 : UpperCase[k] = c
  THEN LowerCase[CHOOSE k \in 1..26 : UpperCase[k] = c]
  ELSE c

\* String.prototype.toLowerCase, character by character.
toLowerCase(s) == [i \in 1..Len(s) |-> lowerChar(s[i])]

Min(S) == CHOOSE x \in S : \A y \in S : x <= y

Max(S) == CHOOSE x \in S : \A y \in S : y <= x

\* s[i..j] consists of characters of class C (true of the empty range).
AllIn(s, i, j, C) == \A k \in i..j : s[k] \in C

\* s[i..j] is matched by `.`-repetition: it holds no line terminator.
AllDot(s, i, j) == \A k \in i..j : s[k] \notin LineTerminators

\* The literal lit occurs in s at i..i+Len(lit)-1, letter case ignored (flag i).
LitAtI(s, i, lit) ==
  /\ i >= 1
  /\ i + Len(lit) - 1 <= Len(s)
  /\ \A k \in 1..Len(lit) : lowerChar(s[i + k - 1]) = lowerChar(lit[k])

RECURSIVE trimStart(_)
trimStart(s) == IF s # <<>> /\ Head(s) \in WhiteSpace THEN trimStart(Tail(s)) ELSE s

RECURSIVE trimEnd(_)
trimEnd(s) == IF s # <<>> /\ s[Len(s)] \in WhiteSpace THEN trimEnd(SubSeq(s, 1, Len(s) - 1)) ELSE s

\* String.prototype.trim
trim(s) == trimEnd(trimStart(s))

\* s.replace(/\s+/g, " "): every maximal run of white space becomes one space.
RECURSIVE replaceSpaceRuns(_)
replaceSpaceRuns(s) ==
  IF s = <<>> THEN <<>>
  ELSE IF Head(s) \in WhiteSpace THEN <<" ">> \o replaceSpaceRuns(trimStart(s))
  ELSE <<Head(s)>> \o replaceSpaceRuns(Tail(s))

\* The least index of character c in s, 0 when s has none.
IndexOf(s, c) ==
  IF \E i \in 1..Len(s) : s[i] = c
  THEN CHOOSE i \in 1..Len(s) : s[i] = c /\ \A j \in 1..(i - 1) : s[j] # c
  ELSE 0

\* s.split(sep) for a one-character separator: always at least one part.
RECURSIVE split(_, _)
split(s, sep) ==
  LET i == IndexOf(s, sep)
  IN IF i = 0 THEN <<s>>
     ELSE <<SubSeq(s, 1, i - 1)>> \o split(SubSeq(s, i + 1, Len(s)), sep)

\* parts.join(sep)
RECURSIVE join(_, _)
join(parts, sep) ==
  IF parts = <<>> THEN <<>>
  ELSE IF Len(parts) = 1 THEN parts[1]
  ELSE parts[1] \o sep \o join(Tail(parts), sep)

\* parts.slice(1)
slice1(parts) == Tail(parts)

\* list.slice(0, n)
sliceTo(list, n) == SubSeq(list, 1, IF Len(list) < n THEN Len(list) ELSE n)

(***************************************************************************)
(* The selector table                                                      *)
(***************************************************************************)

SELECTORS ==
  [ name |-> << "h1.text-heading-xlarge",
                ".pv-text-details__left-panel h1",
                ".pv-top-card--list li:first-child",
                "h1[data-anonymize=\"person-name\"]",
                ".top-card-layout__title" >>,
    headline |-> << ".text-body-medium.break-words",
                    ".pv-text-details__left-panel .text-body-medium",
                    ".pv-top-card--list-bullet li",
                    "div[data-anonymize=\"headline\"]",
                    ".top-card-layout__headline" >>,
    location |-> << ".pv-text-details__left-panel .text-body-small:last-child",
                    ".pv-top-card--list-bullet li:last-child",
                    "span[data-anonymize=\"location\"]",
                    ".top-card-layout__first-subline" >>,
    about |-> << "#about ~ .display-flex .pv-shared-text-with-see-more span.visually-hidden",
                 "#about ~ .display-flex .inline-show-more-text",
                 ".pv-about__summary-text",
                 "section[data-section=\"summary\"] .pv-shared-text-with-see-more",
                 "#about + div span[aria-hidden='true']" >>,
    experienceSection |-> << "#experience ~ .pvs-list__outer-container",
                             "#experience + div + div",
                             "section[data-section=\"experience\"]",
                             ".experience-section" >>,
    educationSection |-> << "#education ~ .pvs-list__outer-container",
                            "#education + div + div",
                            "section[data-section=\"education\"]",
                            ".education-section" >>,
    skillsSection |-> << "#skills ~ .pvs-list__outer-container",
                         "section[data-section=\"skills\"]",
                         ".pv-skill-categories-section" >>,
    profileImage |-> << ".pv-top-card-profile-picture__image",
                        ".pv-top-card__photo",
                        ".profile-photo-edit__preview",
                        "img.pv-top-card-profile-picture__image--show" >> ]

\* The selector extractProfileUrl queries the document with.
CanonicalSelector == "link[rel=\"canonical\"]"

Range(f) == {f[i] : i \in DOMAIN f}

SelectorSetNames == DOMAIN SELECTORS

AllSelectors == UNION {Range(SELECTORS[k]) : k \in SelectorSetNames} \cup {CanonicalSelector}

(***************************************************************************)
(* The document                                                            *)
(***************************************************************************)

\* An element: textContent, src / href attribute, and what element.querySelectorAll
\* of the section's item query yields, in document order.
Element(text, attr, items) == [text |-> text, attr |-> attr, items |-> items]

TextElement(text) == Element(text, <<>>, <<>>)

\* The outcome of document.querySelectorAll(selector): it raises (the selector is
\* invalid for the engine), or yields the matching elements in document order.
Outcome(invalid, els) == [invalid |-> invalid, els |-> els]

NoMatch == Outcome(FALSE, <<>>)

Invalid == Outcome(TRUE, <<>>)

EmptyDocument == [s \in AllSelectors |-> NoMatch]

(***************************************************************************)
(* Selector resolution                                                     *)
(***************************************************************************)

\* The try block of querySelector for one selector: the element found, or Null
\* when the selector matches nothing or the query raises (caught, skipped).
tryQuerySelector(d, selector) ==
  IF d[selector].invalid THEN Null
  ELSE IF d[selector].els = <<>> THEN Null
  ELSE d[selector].els[1]

\* `if (element) return element`, else the loop goes on.
elementOr(element, rest) == IF element # Null THEN element ELSE rest

RECURSIVE querySelectorFrom(_, _, _)
querySelectorFrom(d, selectors, i) ==
  IF i > Len(selectors) THEN Null
  ELSE elementOr(tryQuerySelector(d, selectors[i]), querySelectorFrom(d, selectors, i + 1))

\* querySelector(selectors): the first match of the first selector that matches.
querySelector(d, selectors) == querySelectorFrom(d, selectors, 1)

\* The try block of querySelectorAll for one selector.
tryQuerySelectorAll(d, selector) ==
  IF d[selector].invalid THEN <<>> ELSE d[selector].els

\* Matches of every selector, one after the other.
merged(elements, rest) == elements \o rest

\* `if (elements.length > 0) return Array.from(elements)`, else the loop goes on.
elementsOr(elements, rest) == IF Len(elements) > 0 THEN elements ELSE rest

RECURSIVE querySelectorAllFrom(_, _, _)
querySelectorAllFrom(d, selectors, i) ==
  IF i > Len(selectors) THEN <<>>
  ELSE elementsOr(tryQuerySelectorAll(d, selectors[i]),
                  querySelectorAllFrom(d, selectors, i + 1))

\* querySelectorAll(selectors): all matches of the first selector that matches.
querySelectorAll(d, selectors) == querySelectorAllFrom(d, selectors, 1)

\* getTextContent(element): trimmed, white space collapsed; "" for no element.
getTextContent(element) ==
  IF element = Null THEN <<>> ELSE replaceSpaceRuns(trim(element.text))

(***************************************************************************)
(* Name                                                                    *)
(***************************************************************************)

Unknown == <<"U", "n", "k", "n", "o", "w", "n">>

\* A last name that is the second token alone.
secondToken(parts) == parts[2]

\* lastName: parts.slice(1).join(" ")
lastNameOf(parts) == join(slice1(parts), <<" ">>)

\* A split that needs one token only.
splitFromOneToken(fullName, parts) ==
  IF Len(parts) >= 1
  THEN [fullName |-> fullName, firstName |-> parts[1], lastName |-> join(slice1(parts), <<" ">>)]
  ELSE [fullName |-> fullName, firstName |-> undefined, lastName |-> undefined]

\* The split of fullName into first and last name.
nameParts(fullName, parts) ==
  IF Len(parts) >= 2
  THEN [fullName |-> fullName, firstName |-> parts[1], lastName |-> lastNameOf(parts)]
  ELSE [fullName |-> fullName, firstName |-> undefined, lastName |-> undefined]

extractName(d) ==
  LET Parts(fullName) == nameParts(fullName, split(fullName, " "))
  IN Parts(Or(getTextContent(querySelector(d, SELECTORS.name)), Unknown))

(***************************************************************************)
(* Headline, location, about                                               *)
(***************************************************************************)

extractHeadline(d) == getTextContent(querySelector(d, SELECTORS.headline))

extractLocation(d) == getTextContent(querySelector(d, SELECTORS.location))

extractAbout(d) == getTextContent(querySelector(d, SELECTORS.about))

\* The result of String.match: no match, or the two captured groups.
NoGroups == <<>>

\* The class [|·] of the headline patterns.
Separators == {"|", MiddleDot}

\* (?:\s*[|·]|$) matches right after s[d].
FieldEnd(s, d) ==
  \/ \E e \in d..(Len(s) - 1) : AllIn(s, d + 1, e, WhiteSpace) /\ s[e + 1] \in Separators
  \/ d = Len(s)

\* The ends d of group 2, (.+?) from s[c+1], that (?:\s*[|·]|$) can follow.
CompanyEnds(s, c) == {d \in (c + 1)..Len(s) : AllDot(s, c + 1, d) /\ FieldEnd(s, d)}

\* /^(.+?)\s+at\s+(.+?)(?:\s*[|·]|$)/i with group 1 = s[1..a], the first \s+ = s[a+1..b],
\* "at" = s[b+1..b+2], the second \s+ = s[b+3..c], group 2 = s[c+1..d].
AtC(s, b) == {c \in (b + 3)..Len(s) : AllIn(s, b + 3, c, WhiteSpace) /\ CompanyEnds(s, c) # {}}

AtB(s, a) ==
  {b \in (a + 1)..Len(s) :
     AllIn(s, a + 1, b, WhiteSpace) /\ LitAtI(s, b + 1, <<"a", "t">>) /\ AtC(s, b) # {}}

AtA(s) == {a \in 1..Len(s) : AllDot(s, 1, a) /\ AtB(s, a) # {}}

\* Backtracking order: lazy groups shortest first, greedy \s+ longest first.
atMatch(s) ==
  LET D(c) == <<c, Min(CompanyEnds(s, c))>>
      C(b) == D(Max(AtC(s, b)))
      B(a) == <<a>> \o C(Max(AtB(s, a)))
      Groups(m) == <<SubSeq(s, 1, m[1]), SubSeq(s, m[2] + 1, m[3])>>
      A(S) == IF S = {} THEN NoGroups ELSE Groups(B(Min(S)))
  IN A(AtA(s))

\* /^(.+?)\s*[|·]\s*(.+?)(?:\s*[|·]|$)/ with group 1 = s[1..a], the first \s* = s[a+1..b],
\* the separator = s[b+1], the second \s* = s[b+2..c], group 2 = s[c+1..d].
PipeC(s, b) == {c \in (b + 1)..Len(s) : AllIn(s, b + 2, c, WhiteSpace) /\ CompanyEnds(s, c) # {}}

PipeB(s, a) ==
  {b \in a..(Len(s) - 1) :
     AllIn(s, a + 1, b, WhiteSpace) /\ s[b + 1] \in Separators /\ PipeC(s, b) # {}}

PipeA(s) == {a \in 1..Len(s) : AllDot(s, 1, a) /\ PipeB(s, a) # {}}

pipeMatch(s) ==
  LET D(c) == <<c, Min(CompanyEnds(s, c))>>
      C(b) == D(Max(PipeC(s, b)))
      B(a) == <<a>> \o C(Max(PipeB(s, a)))
      Groups(m) == <<SubSeq(s, 1, m[1]), SubSeq(s, m[2] + 1, m[3])>>
      A(S) == IF S = {} THEN NoGroups ELSE Groups(B(Min(S)))
  IN A(PipeA(s))

\* { title: m[1].trim(), company: m[2].trim() }
titleCompany(m) == [title |-> trim(m[1]), company |-> trim(m[2])]

parseHeadlineForJob(headline) ==
  LET Result(at, pipe) ==
        IF at # NoGroups THEN titleCompany(at)
        ELSE IF pipe # NoGroups THEN titleCompany(pipe)
        ELSE [title |-> headline, company |-> undefined]
  IN IF ~Truthy(headline) THEN [title |-> undefined, company |-> undefined]
     ELSE Result(atMatch(headline), pipeMatch(headline))

(***************************************************************************)
(* Date ranges                                                             *)
(***************************************************************************)

\* The class [-–].
Dashes == {"-", EnDash}

Present == <<"P", "r", "e", "s", "e", "n", "t">>

\* \w+\s*\d{4} from s[p]: the pairs <<w, x>> with \w+ = s[p..w], \s* = s[w+1..x],
\* \d{4} = s[x+1..x+4].
WordYearAt(s, p) ==
  {m \in (p..Len(s)) \X (p..Len(s)) :
     /\ m[1] <= m[2]
     /\ m[2] + 4 <= Len(s)
     /\ AllIn(s, p, m[1], WordChars)
     /\ AllIn(s, m[1] + 1, m[2], WhiteSpace)
     /\ AllIn(s, m[2] + 1, m[2] + 4, Digits)}

\* \d{4} at s[p..p+3].
YearAt(s, p) == p >= 1 /\ p + 3 <= Len(s) /\ AllIn(s, p, p + 3, Digits)

\* Greedy order of \w+ and \s*: the longest \w+ first, then the longest \s*.
Greediest(S) ==
  CHOOSE m \in S : \A o \in S : m[1] > o[1] \/ (m[1] = o[1] /\ m[2] >= o[2])

\* The end of group 2, (\w+\s*\d{4}|\d{4}|Present) from s[q]; 0 when it does not match.
EndPeriodEnd(s, q) ==
  LET Pick(W) ==
        IF W # {} THEN Greediest(W)[2] + 4
        ELSE IF YearAt(s, q) THEN q + 3
        ELSE IF LitAtI(s, q, Present) THEN q + 6
        ELSE 0
  IN Pick(WordYearAt(s, q))

\* The start of group 2 when \s*[-–]\s*(group 2) matches right after s[e]; 0 otherwise.
EndPeriodStart(s, e) ==
  LET Pick(G) == IF G = {} THEN 0 ELSE Max(G) + 1
  IN Pick({g \in (e + 1)..(Len(s) - 1) :
             /\ \E f \in e..(g - 1) :
                  /\ AllIn(s, e + 1, f, WhiteSpace)
                  /\ s[f + 1] \in Dashes
                  /\ AllIn(s, f + 2, g, WhiteSpace)
             /\ EndPeriodEnd(s, g + 1) # 0})

\* The end of group 1, (\w+\s*\d{4}|\d{4}) from s[p], with the rest of the pattern
\* matching after it; 0 when the pattern does not match at p.
StartPeriodEnd(s, p) ==
  LET Pick(W) ==
        IF W # {} THEN Greediest(W)[2] + 4
        ELSE IF YearAt(s, p) /\ EndPeriodStart(s, p + 3) # 0 THEN p + 3
        ELSE 0
  IN Pick({m \in WordYearAt(s, p) : EndPeriodStart(s, m[2] + 4) # 0})

\* /(\w+\s*\d{4}|\d{4})\s*[-–]\s*(\w+\s*\d{4}|\d{4}|Present)/i: not anchored, so the
\* leftmost position where it matches decides.
dateMatch(s) ==
  LET Q(p, e, q) == <<SubSeq(s, p, e), SubSeq(s, q, EndPeriodEnd(s, q))>>
      E(p, e) == Q(p, e, EndPeriodStart(s, e))
      Groups(p) == E(p, StartPeriodEnd(s, p))
      P(S) == IF S = {} THEN NoGroups ELSE Groups(Min(S))
  IN P({p \in 1..Len(s) : StartPeriodEnd(s, p) # 0})

\* A parse that takes the whole cell as the start period.
openEnded(dateText) ==
  [start |-> IF Truthy(dateText) THEN trim(dateText) ELSE undefined, end |-> undefined]

parseDateRange(dateText) ==
  LET Result(match) ==
        IF match # NoGroups THEN [start |-> trim(match[1]), end |-> trim(match[2])]
        ELSE [start |-> undefined, end |-> undefined]
  IN IF ~Truthy(dateText) THEN [start |-> undefined, end |-> undefined]
     ELSE Result(dateMatch(dateText))

(***************************************************************************)
(* Degrees                                                                 *)
(***************************************************************************)

\* /^(.+?),\s*(.+?)$/ with group 1 = s[1..a], the comma = s[a+1], \s* = s[a+2..b],
\* group 2 = s[b+1..Len(s)].
CommaB(s, a) ==
  {b \in (a + 1)..(Len(s) - 1) : AllIn(s, a + 2, b, WhiteSpace) /\ AllDot(s, b + 1, Len(s))}

CommaA(s) ==
  {a \in 1..(Len(s) - 1) : AllDot(s, 1, a) /\ s[a + 1] = "," /\ CommaB(s, a) # {}}

commaMatch(s) ==
  LET B(a, b) == <<SubSeq(s, 1, a), SubSeq(s, b + 1, Len(s))>>
      Groups(a) == B(a, Max(CommaB(s, a)))
      A(S) == IF S = {} THEN NoGroups ELSE Groups(Min(S))
  IN A(CommaA(s))

\* /^(.+?)\s+in\s+(.+?)$/i with group 1 = s[1..a], the first \s+ = s[a+1..b],
\* "in" = s[b+1..b+2], the second \s+ = s[b+3..c], group 2 = s[c+1..Len(s)].
InC(s, b) ==
  {c \in (b + 3)..(Len(s) - 1) : AllIn(s, b + 3, c, WhiteSpace) /\ AllDot(s, c + 1, Len(s))}

InB(s, a) ==
  {b \in (a + 1)..Len(s) :
     AllIn(s, a + 1, b, WhiteSpace) /\ LitAtI(s, b + 1, <<"i", "n">>) /\ InC(s, b) # {}}

InA(s) == {a \in 1..Len(s) : AllDot(s, 1, a) /\ InB(s, a) # {}}

inMatch(s) ==
  LET C(a, c) == <<SubSeq(s, 1, a), SubSeq(s, c + 1, Len(s))>>
      B(a, b) == C(a, Max(InC(s, b)))
      Groups(a) == B(a, Max(InB(s, a)))
      A(S) == IF S = {} THEN NoGroups ELSE Groups(Min(S))
  IN A(InA(s))

\* { degree: m[1].trim(), field: m[2].trim() }
degreeField(m) == [degree |-> trim(m[1]), field |-> trim(m[2])]

parseDegree(text) ==
  LET Result(comma, in) ==
        IF comma # NoGroups THEN degreeField(comma)
        ELSE IF in # NoGroups THEN degreeField(in)
        ELSE [degree |-> text, field |-> undefined]
  IN IF ~Truthy(text) THEN [degree |-> undefined, field |-> undefined]
     ELSE Result(commaMatch(text), inMatch(text))

(***************************************************************************)
(* Experience                                                              *)
(***************************************************************************)

MaxExperience == 10

MaxEducation == 5

MaxSkills == 20

\* An item of the experience section: the element each item.querySelector of the
\* try block yields (or Null), and whether a query on the item raises.
ExperienceItem(title, company, date, description, location, raises) ==
  [title |-> title, company |-> company, date |-> date, description |-> description,
   location |-> location, raises |-> raises]

\* The outcome of one pass through a try block: it threw, or it ran to its end and
\* pushed the entry or not.
Threw == [threw |-> TRUE, push |-> FALSE, entry |-> <<>>]

Skipped == [threw |-> FALSE, push |-> FALSE, entry |-> <<>>]

Pushed(entry) == [threw |-> FALSE, push |-> TRUE, entry |-> entry]

\* The outcome of a list extractor's loop: the list built, or an exception.
Looped(list) == [threw |-> FALSE, list |-> list]

LoopThrew(list) == [threw |-> TRUE, list |-> list]

\* A `seen` set that outlives the call that filled it.
staleSeen == locals.seen

\* `const experiences = []`, `const education = []`, `const skills = []`,
\* `const seen = new Set()`: allocated by each call.
newExperiences == <<>>

newEducation == <<>>

newSkills == <<>>

newSeen == {}

\* The company cell cut at the first separator: split("·")[0].trim()
companyOf(text) == trim(split(text, MiddleDot)[1])

\* `if (title || company) experiences.push({...})`
experienceEntry(title, company, range, description, location) ==
  IF Truthy(title) \/ Truthy(company)
  THEN Pushed([title |-> Or(title, undefined),
               company |-> Or(company, undefined),
               start |-> range.start,
               end |-> range.end,
               description |-> Or(description, undefined),
               location |-> Or(location, undefined)])
  ELSE Skipped

\* The try block of extractExperience for one item.
experienceTry(item) ==
  IF item.raises THEN Threw
  ELSE experienceEntry(getTextContent(item.title),
                       companyOf(getTextContent(item.company)),
                       parseDateRange(getTextContent(item.date)),
                       getTextContent(item.description),
                       getTextContent(item.location))

\* A loop body that lets the exception of its try block escape.
uncaught(r) == r

\* catch (e) { console.error(...) } of extractExperience: the item is skipped.
experienceCatch(r) == IF r.threw THEN Skipped ELSE r

\* The list after one item: the entry pushed or not.
pushIf(list, r) == IF r.push THEN Append(list, r.entry) ELSE list

\* items.forEach over the experience items, from the list built so far.
RECURSIVE experienceForEach(_, _)
experienceForEach(items, experiences) ==
  LET After(r) ==
        IF r.threw THEN LoopThrew(experiences)
        ELSE experienceForEach(Tail(items), pushIf(experiences, r))
  IN IF items = <<>> THEN Looped(experiences)
     ELSE After(experienceCatch(experienceTry(Head(items))))

\* The local `experiences` when extractExperience returns (or throws).
experiencesOf(d) ==
  LET Items(section) ==
        IF section = Null THEN Looped(newExperiences)
        ELSE experienceForEach(section.items, newExperiences)
  IN Items(querySelector(d, SELECTORS.experienceSection))

\* The whole list returned, whatever its length.
unsliced(r) == [threw |-> r.threw, value |-> r.list]

\* return experiences.slice(0, 10)
experienceResult(r) == [threw |-> r.threw, value |-> sliceTo(r.list, MaxExperience)]

extractExperience(d) == experienceResult(experiencesOf(d))

(***************************************************************************)
(* Education                                                               *)
(***************************************************************************)

EducationItem(school, degree, date, raises) ==
  [school |-> school, degree |-> degree, date |-> date, raises |-> raises]

\* An entry pushed whether or not the item names a school.
entryForAnySchool(school, parsed, range) ==
  Pushed([school |-> school, degree |-> parsed.degree, field |-> parsed.field,
          start |-> range.start, end |-> range.end])

\* `if (school) education.push({...})`
educationEntry(school, parsed, range) ==
  IF Truthy(school)
  THEN Pushed([school |-> school,
               degree |-> parsed.degree,
               field |-> parsed.field,
               start |-> range.start,
               end |-> range.end])
  ELSE Skipped

\* The try block of extractEducation for one item.
educationTry(item) ==
  IF item.raises THEN Threw
  ELSE educationEntry(getTextContent(item.school),
                      parseDegree(getTextContent(item.degree)),
                      parseDateRange(getTextContent(item.date)))

\* catch (e) { console.error(...) } of extractEducation: the item is skipped.
educationCatch(r) == IF r.threw THEN Skipped ELSE r

RECURSIVE educationForEach(_, _)
educationForEach(items, education) ==
  LET After(r) ==
        IF r.threw THEN LoopThrew(education)
        ELSE educationForEach(Tail(items), pushIf(education, r))
  IN IF items = <<>> THEN Looped(education)
     ELSE After(educationCatch(educationTry(Head(items))))

\* The local `education` when extractEducation returns (or throws).
educationOf(d) ==
  LET Items(section) ==
        IF section = Null THEN Looped(newEducation)
        ELSE educationForEach(section.items, newEducation)
  IN Items(querySelector(d, SELECTORS.educationSection))

\* return education.slice(0, 5)
educationResult(r) == [threw |-> r.threw, value |-> sliceTo(r.list, MaxEducation)]

extractEducation(d) == educationResult(educationOf(d))

(***************************************************************************)
(* Skills                                                                  *)
(***************************************************************************)

\* A key that keeps the casing of the skill.
exactKey(skill) == skill

\* The key a skill is remembered and looked up by: skill.toLowerCase()
seenKey(skill) == toLowerCase(skill)

\* `if (skill && !seen.has(key)) { seen.add(key); skills.push(skill) }`
skillsPush(acc, skill, key) ==
  IF Truthy(skill) /\ key \notin acc.seen
  THEN [skills |-> Append(acc.skills, skill), seen |-> acc.seen \cup {key}]
  ELSE acc

\* The body of items.forEach of extractSkills for one item.
skillsStep(acc, item) ==
  LET Step(skill) == skillsPush(acc, skill, seenKey(skill))
  IN Step(getTextContent(item))

RECURSIVE skillsForEach(_, _)
skillsForEach(items, acc) ==
  IF items = <<>> THEN acc ELSE skillsForEach(Tail(items), skillsStep(acc, Head(items)))

\* The locals `skills` and `seen` when extractSkills returns.
skillsOf(d) ==
  LET Items(section) ==
        IF section = Null THEN [skills |-> newSkills, seen |-> newSeen]
        ELSE skillsForEach(section.items, [skills |-> newSkills, seen |-> newSeen])
  IN Items(querySelector(d, SELECTORS.skillsSection))

\* return skills.slice(0, 20)
skillsResult(acc) == sliceTo(acc.skills, MaxSkills)

extractSkills(d) == skillsResult(skillsOf(d))

(***************************************************************************)
(* Image and URL                                                           *)
(***************************************************************************)

Ghost == <<"g", "h", "o", "s", "t">>

\* s.includes(lit)
includes(s, lit) == \E i \in 1..(Len(s) - Len(lit) + 1) : SubSeq(s, i, i + Len(lit) - 1) = lit

\* `if (img?.src && !img.src.includes("ghost")) return img.src`
imageSrc(img) ==
  IF img # Null /\ Truthy(img.attr) /\ ~includes(img.attr, Ghost) THEN img.attr ELSE undefined

extractProfileImage(d) == imageSrc(querySelector(d, SELECTORS.profileImage))

\* document.querySelector(selector), called directly: the first match or null.
documentQuerySelector(d, selector) ==
  IF d[selector].els = <<>> THEN Null ELSE d[selector].els[1]

\* s.replace(/\/$/, ""): one trailing slash removed.
dropTrailingSlash(s) == IF s # <<>> /\ s[Len(s)] = "/" THEN SubSeq(s, 1, Len(s) - 1) ELSE s

\* url.split("?")[0].replace(/\/$/, "")
stripUrl(url) == dropTrailingSlash(split(url, "?")[1])

\* `canonical?.href` decides between the canonical link and the location.
urlSource(canonical, location) ==
  IF canonical # Null /\ Truthy(canonical.attr) THEN canonical.attr ELSE location

extractProfileUrl(d, location) ==
  stripUrl(urlSource(documentQuerySelector(d, CanonicalSelector), location))

(***************************************************************************)
(* Flattened text                                                          *)
(***************************************************************************)

\* The text of one experience entry in generateRawText.
experienceText(exp) ==
  (IF Truthy(exp.title) THEN exp.title ELSE <<>>)
  \o (IF Truthy(exp.company) THEN <<" ", "a", "t", " ">> \o exp.company ELSE <<>>)
  \o (IF Truthy(exp.start) THEN <<" ", "(">> \o exp.start ELSE <<>>)
  \o (IF Truthy(exp.end) THEN <<" ", "-", " ">> \o exp.end \o <<")">> ELSE <<>>)
  \o (IF Truthy(exp.description) THEN <<":", " ">> \o exp.description ELSE <<>>)

\* The text of one education entry in generateRawText.
educationText(edu) ==
  (IF Truthy(edu.degree) THEN edu.degree ELSE <<>>)
  \o (IF Truthy(edu.field) THEN <<" ", "i", "n", " ">> \o edu.field ELSE <<>>)
  \o (IF Truthy(edu.school) THEN <<" ", "f", "r", "o", "m", " ">> \o edu.school ELSE <<>>)

\* `if (text) sections.push(text)`
pushText(text) == IF Truthy(text) THEN <<text>> ELSE <<>>

\* The experience lines, last entry first.
RECURSIVE lastEntryFirst(_)
lastEntryFirst(entries) ==
  IF entries = <<>> THEN <<>>
  ELSE lastEntryFirst(Tail(entries)) \o pushText(experienceText(Head(entries)))

RECURSIVE experienceTexts(_)
experienceTexts(entries) ==
  IF entries = <<>> THEN <<>>
  ELSE pushText(experienceText(Head(entries))) \o experienceTexts(Tail(entries))

RECURSIVE educationTexts(_)
educationTexts(entries) ==
  IF entries = <<>> THEN <<>>
  ELSE pushText(educationText(Head(entries))) \o educationTexts(Tail(entries))

generateRawText(profile) ==
  join((IF Truthy(profile.name) THEN <<profile.name>> ELSE <<>>)
       \o (IF Truthy(profile.headline) THEN <<profile.headline>> ELSE <<>>)
       \o (IF Truthy(profile.location) THEN <<profile.location>> ELSE <<>>)
       \o (IF Truthy(profile.about)
           THEN << <<"A", "b", "o", "u", "t", ":", " ">> \o profile.about >> ELSE <<>>)
       \o (IF Len(profile.skills) # 0
           THEN << <<"S", "k", "i", "l", "l", "s", ":", " ">>
                   \o join(profile.skills, <<",", " ">>) >>
           ELSE <<>>)
       \o experienceTexts(profile.experience)
       \o educationTexts(profile.education),
       <<"\n">>)

(***************************************************************************)
(* The profile assembler                                                   *)
(***************************************************************************)

\* What a call hands to its caller: an exception, or the value returned.
Thrown == [threw |-> TRUE, value |-> <<>>]

Returned(value) == [threw |-> FALSE, value |-> value]

\* experience[0]?.title and experience[0]?.company
firstTitle(experience) == IF experience = <<>> THEN undefined ELSE experience[1].title

firstCompany(experience) == IF experience = <<>> THEN undefined ELSE experience[1].company

\* The object literal `profile` of extractLinkedInProfile.
snapshotOf(name, headline, location, about, job, experience, education, skills, image) ==
  [name |-> name.fullName,
   first_name |-> name.firstName,
   last_name |-> name.lastName,
   headline |-> headline,
   location |-> location,
   job_title |-> Or(job.title, firstTitle(experience)),
   company_name |-> Or(job.company, firstCompany(experience)),
   about |-> about,
   skills |-> skills,
   experience |-> experience,
   education |-> education,
   profile_image_url |-> image]

\* return { profile, profileUrl, rawText }
resultOf(profile, profileUrl) ==
  Returned([profile |-> profile, profileUrl |-> profileUrl, rawText |-> generateRawText(profile)])

extractLinkedInProfile(d, location) ==
  LET Assemble(headline, experience, education) ==
        IF experience.threw \/ education.threw THEN Thrown
        ELSE resultOf(snapshotOf(extractName(d), headline, extractLocation(d), extractAbout(d),
                                 parseHeadlineForJob(headline), experience.value,
                                 education.value, extractSkills(d), extractProfileImage(d)),
                      extractProfileUrl(d, location))
  IN Assemble(extractHeadline(d), extractExperience(d), extractEducation(d))

(***************************************************************************)
(* Bounds of the model                                                     *)
(***************************************************************************)

\* Selectors the page answers other than with "no match" (assembler runs).
MaxRendered == 2

\* Characters of the name element's text (name runs).
MaxNameLen == 5

\* Elements one selector matches (selector resolution runs).
MaxMatches == 2

\* Items of an experience or education section (list runs).
MaxItems == 11

\* Items of a section other than well-formed ones (list runs).
MaxNoise == 2

\* Text nodes of the skills section (list runs).
MaxSkillNodes == 21

\* Characters of a date cell (date runs).
MaxDateLen == 15

\* Characters of the headline element's text (headline runs).
MaxHeadlineLen == 8

\* Characters of a degree cell (degree runs).
MaxDegreeLen == 7

\* Characters of a URL (URL runs).
MaxUrlLen == 4

\* Positions shown in a section (runs over the markup of the items).
MaxPositions == 5

\* Characters after the path prefix of a URL (identifier runs).
MaxSegmentLen == 3

\* Runs of the panel's extract effect, calls of handleAddCandidate and requests of
\* the authentication status in one run of the panel.
MaxOpenings == 2
MaxImports == 3
MaxAuthRequests == 2

\* Calls of apiFetch in one run of the client, and the largest Date.now() and
\* expires_in of the store runs.
MaxCalls == 2
MaxNow == 4
MaxExpiresIn == 32

\* Tokens the server issues in one run of the store.
MaxIssued == 3

\* Skill nodes that repeat an earlier skill or are blank (list runs).
MaxSkillNoise == 1

(***************************************************************************)
(* Documents the runs draw from                                            *)
(***************************************************************************)

Section(items) == Element(<<>>, <<>>, items)

Image(src) == Element(<<>>, src, <<>>)

Link(url) == Element(<<>>, url, <<>>)

\* The position of selector s in the set it belongs to.
PositionOf(s) ==
  IF s = CanonicalSelector THEN 1
  ELSE LET k == CHOOSE k \in SelectorSetNames : s \in Range(SELECTORS[k])
       IN CHOOSE i \in 1..Len(SELECTORS[k]) : SELECTORS[k][i] = s

NameSamples == << <<" ", "A", "d", "a", "\n", "K", "i", "m", " ">>, <<" ">> >>

HeadlineSamples == << <<"D", "e", "v", " ", "a", "t", " ", "X", "|", "y">>, <<"D", "e", "v">> >>

PlainSamples == << <<"N", "Y">>, <<>> >>

DateSample == <<"2", "0", "1", "8", " ", "-", " ", "P", "r", "e", "s", "e", "n", "t">>

YearsSample == <<"2", "0", "1", "0", " ", EnDash, " ", "2", "0", "1", "4">>

GoodExperience ==
  ExperienceItem(TextElement(<<"Q", "A">>),
                 TextElement(<<"X", " ", MiddleDot, " ", "F", "T">>),
                 TextElement(DateSample), Null, Null, FALSE)

RaisingExperience == ExperienceItem(Null, Null, Null, Null, Null, TRUE)

BareExperience ==
  ExperienceItem(Null, TextElement(<<MiddleDot, " ", "F", "T">>),
                 TextElement(<<"2", "0", "1", "9">>),
                 TextElement(<<"d">>), TextElement(<<"N", "Y">>), FALSE)

GoodEducation ==
  EducationItem(TextElement(<<"M", "I", "T">>),
                TextElement(<<"B", "S", ",", " ", "C", "S">>),
                TextElement(YearsSample), FALSE)

RaisingEducation == EducationItem(Null, Null, Null, TRUE)

BareEducation ==
  EducationItem(Null, TextElement(<<"B", "S", " ", "i", "n", " ", "C", "S">>), Null, FALSE)

ExperienceSectionSamples ==
  << Section(<<RaisingExperience, GoodExperience>>), Section(<<BareExperience>>) >>

EducationSectionSamples ==
  << Section(<<RaisingEducation, GoodEducation>>), Section(<<BareEducation>>) >>

SkillsSectionSamples ==
  << Section(<<TextElement(<<"G", "o">>), TextElement(<<" ", "g", "O", " ">>),
               TextElement(<<>>)>>),
     Section(<<>>) >>

ImageSamples == << Image(<<"a", ".", "p", "n", "g">>),
                   Image(<<"a", "/", "g", "h", "o", "s", "t", ".", "p", "n", "g">>) >>

CanonicalSamples ==
  << Link(<<"l", "i", "n", "k", "e", "d", "i", "n", ".", "c", "o", "m", "/", "i", "n", "/",
            "a", "d", "a", "/", "?", "t">>) >>

\* window.location.href of the runs.
ProfileHref ==
  <<"l", "i", "n", "k", "e", "d", "i", "n", ".", "c", "o", "m", "/", "i", "n", "/",
    "B", "o", "b", "?", "t", "/">>

\* The samples of the selector set s belongs to.
SamplesOf(s) ==
  IF s \in Range(SELECTORS.name) THEN [i \in 1..2 |-> TextElement(NameSamples[i])]
  ELSE IF s \in Range(SELECTORS.headline) THEN [i \in 1..2 |-> TextElement(HeadlineSamples[i])]
  ELSE IF s \in Range(SELECTORS.location) \cup Range(SELECTORS.about)
  THEN [i \in 1..2 |-> TextElement(PlainSamples[i])]
  ELSE IF s \in Range(SELECTORS.experienceSection) THEN ExperienceSectionSamples
  ELSE IF s \in Range(SELECTORS.educationSection) THEN EducationSectionSamples
  ELSE IF s \in Range(SELECTORS.skillsSection) THEN SkillsSectionSamples
  ELSE IF s \in Range(SELECTORS.profileImage) THEN ImageSamples
  ELSE CanonicalSamples

\* The element the page shows under selector s: the samples of its set alternate
\* along the set.
ElementUnder(s) == SamplesOf(s)[((PositionOf(s) - 1) % Len(SamplesOf(s))) + 1]

\* What a query with selector s may answer: the element, or, for a selector of the
\* table, an exception (the engine rejects the selector).
RenderChoices(s) ==
  {Outcome(FALSE, <<ElementUnder(s)>>)} \cup (IF s = CanonicalSelector THEN {} ELSE {Invalid})

Rendered(d) == {s \in AllSelectors : d[s] # NoMatch}

(***************************************************************************)
(* The state machine                                                       *)
(***************************************************************************)

\* What the last call handed to its caller.
NoOut == [op |-> "none", threw |-> FALSE, value |-> <<>>]

Out(op, r) == [op |-> op, threw |-> r.threw, value |-> r.value]

\* The state of LinkedInProfilePanel before it is mounted: the useState and useRef
\* initial values. closures numbers the runs of the extract effect that got past
\* its guard, live is the run whose cleanup is registered, cancelled holds the runs
\* whose isCancelled flag is set and timers those with a retry timer pending.
\* applied counts, per run, the calls of setProfileData; call is the last call of
\* extractLinkedInProfile (who made it, at which URL); sent holds the messages
\* the last step handed to the background; imports holds the calls of handleAddCandidate that
\* wait for an answer or a timer, status the status line, inmail the stage of
\* handleDraftInmail.
NoPanel ==
  [mounted |-> FALSE, isOpen |-> FALSE, hasAutoOpened |-> FALSE,
   isAuthenticated |-> FALSE, selectedJobId |-> <<>>, authRequests |-> 0,
   profileExtractAttempts |-> 0, closures |-> 0, live |-> 0, cancelled |-> {},
   timers |-> {}, applied |-> <<>>, profileData |-> Null,
   call |-> [by |-> "none", href |-> <<>>],
   sent |-> {},
   importAttempt |-> 0, imports |-> {}, isLoading |-> FALSE, isRescoreLoading |-> FALSE,
   importResult |-> Null, status |-> Null, isIcpLoading |-> FALSE,
   inmail |-> "none", isInmailLoading |-> FALSE]

\* The credential store (chrome.storage.local under the keys of STORAGE_KEYS) and
\* the API client of the background before the first message: nothing is stored,
\* no request is in flight. auth is null or the stored tokens; a token is named by
\* the number the server issued it under, and expires_at 0 stands for no expiry
\* recorded. now is Date.now(); issued counts the tokens the server has issued;
\* calls holds the calls of apiFetch by their number.
NoTokens == [null |-> TRUE]

DefaultApiBaseUrl ==
  <<"h", "t", "t", "p", "s", ":", "/", "/", "a", "p", "i", ".", "k", "l", "e", "n", ".", "a", "i">>

NoStore == [auth |-> NoTokens, user |-> FALSE, selected_job |-> FALSE,
            api_base_url |-> DefaultApiBaseUrl]

\* No LOGIN message has been handled. Of the last one, before is the store when it
\* arrived and success what it was answered with.
NoLogin == [phase |-> "none", before |-> NoStore, url |-> <<>>, success |-> FALSE]

NoClient == [store |-> NoStore, now |-> 1, issued |-> 0, calls |-> <<>>, login |-> NoLogin]

NoLocals == [experiences |-> <<>>, education |-> <<>>, skills |-> <<>>, seen |-> {}]

Init ==
  /\ doc = EmptyDocument
  /\ href = ProfileHref
  /\ out = NoOut
  /\ prev = NoOut
  /\ locals = NoLocals
  /\ panel = NoPanel
  /\ client = NoClient

\* The locals of the list extractors when a call of extractLinkedInProfile ends:
\* an extractor the call did not reach leaves its locals as they were.
localsAfter(exp, edu, sk) ==
  [experiences |-> exp.list,
   education |-> IF exp.threw THEN locals.education ELSE edu.list,
   skills |-> IF exp.threw \/ edu.threw THEN locals.skills ELSE sk.skills,
   seen |-> IF exp.threw \/ edu.threw THEN locals.seen ELSE sk.seen]

\* The page shows an element under a selector, or the engine rejects the selector.
Render ==
  /\ out = NoOut
  /\ Cardinality(Rendered(doc)) < MaxRendered
  /\ \E s \in AllSelectors :
       /\ doc[s] = NoMatch
       /\ \E o \in RenderChoices(s) : doc' = [doc EXCEPT ![s] = o]
  /\ UNCHANGED <<href, out, prev, locals, panel, client>>

\* A caller runs extractLinkedInProfile(), and once more on the unchanged document.
Extract ==
  /\ prev = NoOut
  /\ out' = Out("extractLinkedInProfile", extractLinkedInProfile(doc, href))
  /\ prev' = out
  /\ locals' = localsAfter(experiencesOf(doc), educationOf(doc), skillsOf(doc))
  /\ UNCHANGED <<doc, href, panel, client>>

Next == Render \/ Extract

Spec == Init /\ [][Next]_vars

(***************************************************************************)
(* The assembler: extractLinkedInProfile                                   *)
(***************************************************************************)

Extracted == out.op = "extractLinkedInProfile"

\* Selector s is a selector of the table that matches nothing (or is rejected).
Unmatched(s) == doc[s].els = <<>>

TextFields ==
  {"name", "first_name", "last_name", "headline", "location", "about", "job_title",
   "company_name", "profile_image_url"}

\* No string field of entry e is the empty string.
NoEmptyField(e) == \A f \in DOMAIN e : e[f] # <<>>

\* C1: every call of extractLinkedInProfile returns a value with the fields profile,
\* profileUrl and rawText; no exception escapes it, whether selectors are rejected,
\* sections are missing or a query on an experience or education item raises.
C1_AlwaysReturns ==
  Extracted => (~out.threw /\ DOMAIN out.value = {"profile", "profileUrl", "rawText"})

\* A call has returned for a page that rejects a selector and whose experience or
\* education section holds an item that raises.
C1_Witness ==
  /\ Extracted
  /\ ~out.threw
  /\ \E s \in AllSelectors : doc[s] = Invalid
  /\ \E s \in {SELECTORS.experienceSection[1], SELECTORS.educationSection[1]} :
       /\ doc[s].els # <<>>
       /\ \E i \in DOMAIN doc[s].els[1].items : doc[s].els[1].items[i].raises

\* C2: in every snapshot returned, each string field of the profile and of every
\* experience and education entry is absent or a non-empty string, never "".
C2_NoEmptyString ==
  (Extracted /\ ~out.threw) =>
    LET p == out.value.profile
    IN /\ \A f \in TextFields : p[f] # <<>>
       /\ \A i \in DOMAIN p.experience : NoEmptyField(p.experience[i])
       /\ \A i \in DOMAIN p.education : NoEmptyField(p.education[i])

C4_NothingMatches ==
  (Extracted /\ \A s \in AllSelectors \ {CanonicalSelector} : Unmatched(s)) =>
    /\ ~out.threw
    /\ LET p == out.value.profile
       IN /\ p.name = Unknown
          /\ \A f \in {"first_name", "last_name", "job_title", "company_name",
                       "profile_image_url"} : p[f] = undefined
          /\ \A f \in {"headline", "location", "about"} : p[f] \in {undefined, <<>>}
          /\ p.skills = <<>>
          /\ p.experience = <<>>
          /\ p.education = <<>>

\* A call has been made on a page where nothing matches and selectors are rejected.
C4_Witness ==
  /\ Extracted
  /\ \A s \in AllSelectors \ {CanonicalSelector} : Unmatched(s)
  /\ Cardinality({s \in AllSelectors : doc[s] = Invalid}) = MaxRendered

\* C11: job_title and company_name are the headline parser's title and company when
\* the headline parse yields a result; they come from the first experience entry
\* only when the headline parse yielded nothing, and are absent when neither source
\* provides them.
C11_HeadlineFirst ==
  (Extracted /\ ~out.threw) =>
    LET p == out.value.profile
        Derived(job) ==
          IF job.title # undefined \/ job.company # undefined
          THEN p.job_title = job.title /\ p.company_name = job.company
          ELSE /\ p.job_title = firstTitle(p.experience)
               /\ p.company_name = firstCompany(p.experience)
    IN Derived(parseHeadlineForJob(p.headline))

(***************************************************************************)
(* The name extractor alone: extractName over every short text of the      *)
(* name element                                                            *)
(***************************************************************************)

NameSelector == SELECTORS.name[1]

NameChars == {"A", "b", " ", "\n"}

\* The text of the name element as the page holds it.
RawName == doc[NameSelector].els[1].text

\* The page shows the name element, its text still empty.
RenderName ==
  /\ out = NoOut
  /\ doc = EmptyDocument
  /\ doc' = [doc EXCEPT ![NameSelector] = Outcome(FALSE, <<TextElement(<<>>)>>)]
  /\ UNCHANGED <<href, out, prev, locals, panel, client>>

\* The text of the name element grows by one character.
TypeName(c) ==
  /\ out = NoOut
  /\ doc[NameSelector].els # <<>>
  /\ Len(RawName) < MaxNameLen
  /\ doc' = [doc EXCEPT ![NameSelector] = Outcome(FALSE, <<TextElement(Append(RawName, c))>>)]
  /\ UNCHANGED <<href, out, prev, locals, panel, client>>

CallExtractName ==
  /\ out = NoOut
  /\ out' = Out("extractName", Returned(extractName(doc)))
  /\ UNCHANGED <<doc, href, prev, locals, panel, client>>

NextName == RenderName \/ (\E c \in NameChars : TypeName(c)) \/ CallExtractName

SpecName == Init /\ [][NextName]_vars

HasSpace(s) == \E i \in DOMAIN s : s[i] = " "

\* Tokens joined by single spaces: no space at either end, no two in a row.
SingleSpaced(s) ==
  /\ s # <<>> => (s[1] # " " /\ s[Len(s)] # " ")
  /\ \A i \in 1..(Len(s) - 1) : ~(s[i] = " " /\ s[i + 1] = " ")

\* C10: extractName sets first and last name exactly when the collapsed name has two
\* or more space-separated tokens; the first name is then the first token, the last
\* name the other tokens joined by single spaces, so that first + " " + last is the
\* full name. With no name element the full name is "Unknown", first and last absent.
C10_NameSplit ==
  out.op = "extractName" =>
    LET n == out.value
    IN /\ (n.firstName # undefined) <=> HasSpace(n.fullName)
       /\ (n.lastName # undefined) <=> HasSpace(n.fullName)
       /\ HasSpace(n.fullName) =>
            /\ n.firstName # <<>>
            /\ ~HasSpace(n.firstName)
            /\ n.lastName # <<>>
            /\ SingleSpaced(n.lastName)
            /\ n.firstName \o <<" ">> \o n.lastName = n.fullName
       /\ doc[NameSelector].els = <<>> =>
            (n.fullName = Unknown /\ n.firstName = undefined /\ n.lastName = undefined)

\* extractName has split a name of three tokens, one of them set off by a line break.
C10_Witness ==
  /\ out.op = "extractName"
  /\ out.value.firstName # undefined
  /\ HasSpace(out.value.lastName)
  /\ \E i \in DOMAIN RawName : RawName[i] = "\n"

(***************************************************************************)
(* Selector resolution alone: querySelector and querySelectorAll over the  *)
(* name selectors                                                          *)
(***************************************************************************)

\* The j-th element the i-th selector matches, told apart by its text.
Match(i, j) == TextElement(<<UpperCase[i], LowerCase[j]>>)

\* The page holds n elements the i-th name selector matches.
RenderMatches(i, n) ==
  /\ out = NoOut
  /\ doc[SELECTORS.name[i]] = NoMatch
  /\ doc' = [doc EXCEPT ![SELECTORS.name[i]] = Outcome(FALSE, [j \in 1..n |-> Match(i, j)])]
  /\ UNCHANGED <<href, out, prev, locals, panel, client>>

\* The engine rejects the i-th name selector.
Reject(i) ==
  /\ out = NoOut
  /\ doc[SELECTORS.name[i]] = NoMatch
  /\ doc' = [doc EXCEPT ![SELECTORS.name[i]] = Invalid]
  /\ UNCHANGED <<href, out, prev, locals, panel, client>>

CallQuerySelector ==
  /\ out = NoOut
  /\ out' = Out("querySelector", Returned(querySelector(doc, SELECTORS.name)))
  /\ UNCHANGED <<doc, href, prev, locals, panel, client>>

CallQuerySelectorAll ==
  /\ out = NoOut
  /\ out' = Out("querySelectorAll", Returned(querySelectorAll(doc, SELECTORS.name)))
  /\ UNCHANGED <<doc, href, prev, locals, panel, client>>

NextResolve ==
  \/ \E i \in DOMAIN SELECTORS.name : \E n \in 1..MaxMatches : RenderMatches(i, n)
  \/ \E i \in DOMAIN SELECTORS.name : Reject(i)
  \/ CallQuerySelector
  \/ CallQuerySelectorAll

SpecResolve == Init /\ [][NextResolve]_vars

\* The positions of the name selectors that match at least one element.
Matching == {i \in DOMAIN SELECTORS.name : doc[SELECTORS.name[i]].els # <<>>}

\* C9: querySelector returns the first element of the earliest selector that matches,
\* querySelectorAll exactly the matches of that selector and of no other; a rejected
\* selector counts as one that matches nothing; with no match the results are null
\* and the empty list, and nothing is thrown.
C9_FirstMatchWins ==
  /\ out.op = "querySelector" =>
       /\ ~out.threw
       /\ out.value = IF Matching = {} THEN Null ELSE doc[SELECTORS.name[Min(Matching)]].els[1]
  /\ out.op = "querySelectorAll" =>
       /\ ~out.threw
       /\ out.value = IF Matching = {} THEN <<>> ELSE doc[SELECTORS.name[Min(Matching)]].els

\* querySelectorAll has answered for a page that rejects the first selector and
\* matches several elements under the second and more under a later one.
C9_Witness ==
  /\ out.op = "querySelectorAll"
  /\ doc[SELECTORS.name[1]] = Invalid
  /\ Len(doc[SELECTORS.name[2]].els) >= 2
  /\ \E i \in 3..Len(SELECTORS.name) : doc[SELECTORS.name[i]].els # <<>>

(***************************************************************************)
(* The list extractors alone: extractExperience, extractEducation and      *)
(* extractSkills over sections built item by item                          *)
(***************************************************************************)

ExperienceRoot == SELECTORS.experienceSection[1]

EducationRoot == SELECTORS.educationSection[1]

SkillsRoot == SELECTORS.skillsSection[1]

SectionRoots == {ExperienceRoot, EducationRoot, SkillsRoot}

\* The items of the section under selector s.
ItemsOf(s) == IF doc[s].els = <<>> THEN <<>> ELSE doc[s].els[1].items

\* The document with `items` as the items of the section under selector s.
WithItems(s, items) == [doc EXCEPT ![s] = Outcome(FALSE, <<Section(items)>>)]

\* The text that tells the n-th item of a section from the others.
Label(n) == <<UpperCase[n]>>

ExperienceKinds == {"titled", "company", "bare", "raising"}

\* The n-th item of the experience section: with a title and a company cell; with a
\* company cell and dates only; with a company cell that is empty before its
\* separator; or one whose queries raise.
ExperienceOfKind(kind, n) ==
  CASE kind = "titled" ->
         ExperienceItem(TextElement(Label(n)),
                        TextElement(<<"X", " ", MiddleDot, " ", "F", "T">>),
                        Null, Null, Null, FALSE)
    [] kind = "company" ->
         ExperienceItem(Null, TextElement(Label(n) \o <<" ", MiddleDot, "x">>),
                        TextElement(<<"2", "0", "1", "8", "-", "2", "0", "1", "9">>),
                        Null, Null, FALSE)
    [] kind = "bare" ->
         ExperienceItem(Null, TextElement(<<" ", MiddleDot, " ", "F", "T">>),
                        TextElement(<<"2", "0", "1", "9">>), TextElement(Label(n)),
                        TextElement(<<"N", "Y">>), FALSE)
    [] kind = "raising" ->
         ExperienceItem(TextElement(Label(n)), Null, Null, Null, Null, TRUE)

EducationKinds == {"schooled", "bare", "raising"}

ExperienceIsPlain(item) == ~item.raises /\ item.title # Null

EducationOfKind(kind, n) ==
  CASE kind = "schooled" ->
         EducationItem(TextElement(Label(n)), TextElement(<<"B", "S", ",", " ", "C", "S">>),
                       Null, FALSE)
    [] kind = "bare" ->
         EducationItem(TextElement(<<" ">>),
                       TextElement(<<"B", "S", " ", "i", "n", " ", "C", "S">>), Null, FALSE)
    [] kind = "raising" -> EducationItem(TextElement(Label(n)), Null, Null, TRUE)

EducationIsPlain(item) == ~item.raises /\ item.school.text # <<" ">>

SkillKinds == {"fresh", "repeatFirst", "repeatLast", "blank"}

\* A skill node names a skill no earlier node names.
SkillIsFresh(item) == item.text # <<>> /\ item.text[1] \in Range(UpperCase)

\* A skill node after k fresh ones: a new skill, the first or the latest skill again
\* in another casing and with white space around it, or a blank node.
SkillOfKind(kind, k) ==
  CASE kind = "fresh" -> TextElement(<<UpperCase[k + 1]>>)
    [] kind = "repeatFirst" -> TextElement(<<LowerCase[1]>>)
    [] kind = "repeatLast" -> TextElement(<<" ", LowerCase[k], "\n">>)
    [] kind = "blank" -> TextElement(<<" ">>)

\* The page shows one of the three sections, with no item yet.
RenderSection(s) ==
  /\ out = NoOut
  /\ doc = EmptyDocument
  /\ doc' = WithItems(s, <<>>)
  /\ UNCHANGED <<href, out, prev, locals, panel, client>>

AddExperience(kind) ==
  /\ out = NoOut
  /\ doc[ExperienceRoot].els # <<>>
  /\ Len(ItemsOf(ExperienceRoot)) < MaxItems
  /\ kind # "titled" =>
       Len(SelectSeq(ItemsOf(ExperienceRoot), ExperienceIsPlain))
         > Len(ItemsOf(ExperienceRoot)) - MaxNoise
  /\ doc' = WithItems(ExperienceRoot,
                      Append(ItemsOf(ExperienceRoot),
                             ExperienceOfKind(kind, Len(ItemsOf(ExperienceRoot)) + 1)))
  /\ UNCHANGED <<href, out, prev, locals, panel, client>>

AddEducation(kind) ==
  /\ out = NoOut
  /\ doc[EducationRoot].els # <<>>
  /\ Len(ItemsOf(EducationRoot)) < MaxItems
  /\ kind # "schooled" =>
       Len(SelectSeq(ItemsOf(EducationRoot), EducationIsPlain))
         > Len(ItemsOf(EducationRoot)) - MaxNoise
  /\ doc' = WithItems(EducationRoot,
                      Append(ItemsOf(EducationRoot),
                             EducationOfKind(kind, Len(ItemsOf(EducationRoot)) + 1)))
  /\ UNCHANGED <<href, out, prev, locals, panel, client>>

AddSkill(kind) ==
  LET fresh == Len(SelectSeq(ItemsOf(SkillsRoot), SkillIsFresh))
  IN /\ out = NoOut
     /\ doc[SkillsRoot].els # <<>>
     /\ Len(ItemsOf(SkillsRoot)) < MaxSkillNodes
     /\ kind # "fresh" => fresh > Len(ItemsOf(SkillsRoot)) - MaxSkillNoise
     /\ kind \in {"repeatFirst", "repeatLast"} => fresh > 0
     /\ doc' = WithItems(SkillsRoot, Append(ItemsOf(SkillsRoot), SkillOfKind(kind, fresh)))
     /\ UNCHANGED <<href, out, prev, locals, panel, client>>

CallExtractExperience ==
  /\ out = NoOut
  /\ \A s \in SectionRoots \ {ExperienceRoot} : doc[s].els = <<>>
  /\ out' = Out("extractExperience", extractExperience(doc))
  /\ UNCHANGED <<doc, href, prev, locals, panel, client>>

CallExtractEducation ==
  /\ out = NoOut
  /\ \A s \in SectionRoots \ {EducationRoot} : doc[s].els = <<>>
  /\ out' = Out("extractEducation", extractEducation(doc))
  /\ UNCHANGED <<doc, href, prev, locals, panel, client>>

CallExtractSkills ==
  /\ out = NoOut
  /\ \A s \in SectionRoots \ {SkillsRoot} : doc[s].els = <<>>
  /\ out' = Out("extractSkills", Returned(extractSkills(doc)))
  /\ UNCHANGED <<doc, href, prev, locals, panel, client>>

NextLists ==
  \/ \E s \in SectionRoots : RenderSection(s)
  \/ \E kind \in ExperienceKinds : AddExperience(kind)
  \/ \E kind \in EducationKinds : AddEducation(kind)
  \/ \E kind \in SkillKinds : AddSkill(kind)
  \/ CallExtractExperience
  \/ CallExtractEducation
  \/ CallExtractSkills

SpecLists == Init /\ [][NextLists]_vars

\* The markup of a position shown in a section: a .pvs-entity element alone, an
\* li.artdeco-list__item alone, or the .pvs-entity inside the list item.
Layouts == {"entity", "listItem", "nested"}

\* What section.querySelectorAll(".pvs-entity, li.artdeco-list__item") yields for
\* one position: every element that matches either pattern, in document order.
\* The cells of a position lie inside each of its elements, so the queries on the
\* list item and on the entity inside it find the same cells.
itemMatches(layout, item) == IF layout = "nested" THEN <<item, item>> ELSE <<item>>

\* The positions shown in the section under selector s: each has its own label.
PositionsOf(s) == {n \in 1..MaxPositions : \E i \in DOMAIN ItemsOf(s) : ItemsOf(s)[i] \in
                     {ExperienceOfKind("titled", n), EducationOfKind("schooled", n)}}

\* The page shows one more position in the experience section.
ShowExperience(layout) ==
  LET n == Cardinality(PositionsOf(ExperienceRoot)) + 1
  IN /\ out = NoOut
     /\ doc[ExperienceRoot].els # <<>>
     /\ n <= MaxPositions
     /\ doc' = WithItems(ExperienceRoot,
                         ItemsOf(ExperienceRoot) \o itemMatches(layout, ExperienceOfKind("titled", n)))
     /\ UNCHANGED <<href, out, prev, locals, panel, client>>

\* The page shows one more school in the education section.
ShowEducation(layout) ==
  LET n == Cardinality(PositionsOf(EducationRoot)) + 1
  IN /\ out = NoOut
     /\ doc[EducationRoot].els # <<>>
     /\ n <= MaxPositions
     /\ doc' = WithItems(EducationRoot,
                         ItemsOf(EducationRoot) \o itemMatches(layout, EducationOfKind("schooled", n)))
     /\ UNCHANGED <<href, out, prev, locals, panel, client>>

NextMarkup ==
  \/ \E s \in {ExperienceRoot, EducationRoot} : RenderSection(s)
  \/ \E layout \in Layouts : ShowExperience(layout)
  \/ \E layout \in Layouts : ShowEducation(layout)
  \/ CallExtractExperience
  \/ CallExtractEducation

SpecMarkup == Init /\ [][NextMarkup]_vars

\* C28: each position shown in the experience section, and each school shown in
\* the education section, yields at most one entry of the list returned, whatever
\* its markup.
C28_OneEntryPerPosition ==
  /\ out.op = "extractExperience" =>
       \A n \in 1..MaxPositions :
         Cardinality({i \in DOMAIN out.value : out.value[i].title = Label(n)}) <= 1
  /\ out.op = "extractEducation" =>
       \A n \in 1..MaxPositions :
         Cardinality({i \in DOMAIN out.value : out.value[i].school = Label(n)}) <= 1

\* The item can be read and has a title, or a company before the first separator.
Kept(item) ==
  /\ ~item.raises
  /\ getTextContent(item.title) # <<>> \/ companyOf(getTextContent(item.company)) # <<>>

\* The item can be read and names a school.
SchoolBearing(item) == ~item.raises /\ getTextContent(item.school) # <<>>

NotRaising(item) == ~item.raises

\* C5: extractExperience returns the first 10 of the section's items whose title or
\* company (cut at the first separator, trimmed) is non-empty, in page order; an item
\* with neither is left out and the list has at most 10 entries.
C5_ExperienceList ==
  out.op = "extractExperience" =>
    LET kept == SelectSeq(ItemsOf(ExperienceRoot), Kept)
        r == out.value
    IN /\ ~out.threw
       /\ Len(r) <= 10
       /\ Len(r) = Min({Len(kept), 10})
       /\ \A i \in DOMAIN r :
            /\ r[i].title = Or(getTextContent(kept[i].title), undefined)
            /\ r[i].company = Or(companyOf(getTextContent(kept[i].company)), undefined)
            /\ r[i].title # undefined \/ r[i].company # undefined

\* extractExperience has returned 10 entries of a section with more items, one of
\* the first 10 having neither title nor company.
C5_Witness ==
  /\ out.op = "extractExperience"
  /\ Len(out.value) = 10
  /\ Len(ItemsOf(ExperienceRoot)) > 10
  /\ \E i \in 1..10 : NotRaising(ItemsOf(ExperienceRoot)[i]) /\ ~Kept(ItemsOf(ExperienceRoot)[i])

\* C6: when an experience or education item raises, the extractor returns normally
\* and returns what it returns for the section without that item: only that item is
\* dropped, every other item is extracted as before and in the same order.
C6_OnlyThatItemDropped ==
  /\ out.op = "extractExperience" =>
       /\ ~out.threw
       /\ out.value =
            extractExperience(WithItems(ExperienceRoot,
                                        SelectSeq(ItemsOf(ExperienceRoot), NotRaising))).value
  /\ out.op = "extractEducation" =>
       /\ ~out.threw
       /\ out.value =
            extractEducation(WithItems(EducationRoot,
                                       SelectSeq(ItemsOf(EducationRoot), NotRaising))).value

\* extractEducation has returned entries of a section in which an item raised
\* between items that name a school.
C6_Witness ==
  /\ out.op = "extractEducation"
  /\ \E i, j, k \in DOMAIN ItemsOf(EducationRoot) :
       /\ i < j /\ j < k
       /\ SchoolBearing(ItemsOf(EducationRoot)[i])
       /\ ItemsOf(EducationRoot)[j].raises
       /\ SchoolBearing(ItemsOf(EducationRoot)[k])
  /\ Len(out.value) >= 2

\* The texts of the skill nodes, in page order.
SkillTexts == [i \in DOMAIN ItemsOf(SkillsRoot) |-> getTextContent(ItemsOf(SkillsRoot)[i])]

\* The positions of `texts` that hold a skill no earlier position holds, casing
\* set aside.
FirstSeen(texts) ==
  LET keys == [i \in DOMAIN texts |-> toLowerCase(texts[i])]
  IN {i \in DOMAIN texts : texts[i] # <<>> /\ \A j \in 1..(i - 1) : keys[j] # keys[i]}

\* The members of the set S of numbers, in ascending order.
RECURSIVE Ascending(_)
Ascending(S) == IF S = {} THEN <<>> ELSE <<Min(S)>> \o Ascending(S \ {Min(S)})

\* C7: the skills returned hold no two entries equal up to casing, are at most 20,
\* and are the distinct skills in first-seen page order with the casing of their
\* first occurrence: duplicates are dropped before the list is cut.
C7_SkillsList ==
  out.op = "extractSkills" =>
    LET r == out.value
        texts == SkillTexts
        first == Ascending(FirstSeen(texts))
    IN /\ Len(r) <= 20
       /\ \A i, j \in DOMAIN r : i # j => toLowerCase(r[i]) # toLowerCase(r[j])
       /\ Len(r) = Min({Len(first), 20})
       /\ \A k \in DOMAIN r : r[k] = texts[first[k]]

\* extractSkills has returned 20 skills, the last from the 21st node: one of the
\* first 20 nodes repeated an earlier skill in another casing.
C7_Witness ==
  /\ out.op = "extractSkills"
  /\ Len(out.value) = 20
  /\ Len(ItemsOf(SkillsRoot)) = 21
  /\ LET texts == SkillTexts
     IN /\ out.value[20] = texts[21]
        /\ \E i \in 2..20 : \E j \in 1..(i - 1) :
             /\ texts[i] # texts[j]
             /\ toLowerCase(texts[i]) = toLowerCase(texts[j])

\* C8: extractEducation returns at most 5 entries, each with a non-empty school:
\* the first 5 items in page order that name a school.
C8_EducationList ==
  out.op = "extractEducation" =>
    LET bearing == SelectSeq(ItemsOf(EducationRoot), SchoolBearing)
        r == out.value
    IN /\ ~out.threw
       /\ Len(r) <= 5
       /\ Len(r) = Min({Len(bearing), 5})
       /\ \A i \in DOMAIN r :
            /\ r[i].school # <<>>
            /\ r[i].school # undefined
            /\ r[i].school = getTextContent(bearing[i].school)

\* extractEducation has returned 5 entries of a section with more school-bearing
\* items, one of the first 5 items naming no school.
C8_Witness ==
  /\ out.op = "extractEducation"
  /\ Len(out.value) = 5
  /\ Len(SelectSeq(ItemsOf(EducationRoot), SchoolBearing)) > 5
  /\ \E i \in 1..5 : NotRaising(ItemsOf(EducationRoot)[i]) /\ ~SchoolBearing(ItemsOf(EducationRoot)[i])

(***************************************************************************)
(* The assembler over full pages: every section shown under the first      *)
(* selector of its set                                                     *)
(***************************************************************************)

PageSets == {"name", "headline", "location", "about", "experienceSection",
             "educationSection", "skillsSection"}

\* What a full page may show for the selector set k.
PageChoices(k) ==
  IF k = "experienceSection"
  THEN {Section(<<ExperienceOfKind("titled", 1), ExperienceOfKind("company", 2)>>),
        ExperienceSectionSamples[1]}
  ELSE IF k = "educationSection"
  THEN {Section(<<EducationOfKind("schooled", 1), GoodEducation>>), EducationSectionSamples[1]}
  ELSE Range(SamplesOf(SELECTORS[k][1]))

\* The page shows element e under the first selector of the set k.
RenderFirst(k, e) ==
  /\ out = NoOut
  /\ doc[SELECTORS[k][1]] = NoMatch
  /\ doc' = [doc EXCEPT ![SELECTORS[k][1]] = Outcome(FALSE, <<e>>)]
  /\ UNCHANGED <<href, out, prev, locals, panel, client>>

NextPage == (\E k \in PageSets : \E e \in PageChoices(k) : RenderFirst(k, e)) \/ Extract

SpecPage == Init /\ [][NextPage]_vars

One(x) == IF Truthy(x) THEN 1 ELSE 0

StartsWith(s, t) == Len(t) <= Len(s) /\ SubSeq(s, 1, Len(t)) = t

EndsWith(s, t) == Len(t) <= Len(s) /\ SubSeq(s, Len(s) - Len(t) + 1, Len(s)) = t

\* C12: the flattened text lists, one per line, the name, the headline, the
\* location, the about text, the skills, then the experience entries in list order,
\* then the education entries in list order; it is made of the snapshot alone.
C12_FlattenedOrder ==
  (Extracted /\ ~out.threw) =>
    LET p == out.value.profile
        lines == IF out.value.rawText = <<>> THEN <<>> ELSE split(out.value.rawText, "\n")
        h == One(p.name) + One(p.headline)
        l == h + One(p.location)
        a == l + One(p.about)
        k == a + (IF p.skills = <<>> THEN 0 ELSE 1)
    IN /\ out.value.rawText = generateRawText(p)
       /\ Len(lines) = k + Len(p.experience) + Len(p.education)
       /\ Truthy(p.name) => lines[1] = p.name
       /\ Truthy(p.headline) => lines[h] = p.headline
       /\ Truthy(p.location) => lines[l] = p.location
       /\ Truthy(p.about) => lines[a] = <<"A", "b", "o", "u", "t", ":", " ">> \o p.about
       /\ p.skills # <<>> =>
            lines[k] = <<"S", "k", "i", "l", "l", "s", ":", " ">> \o join(p.skills, <<",", " ">>)
       /\ \A i \in DOMAIN p.experience :
            StartsWith(lines[k + i],
                       IF p.experience[i].title # undefined THEN p.experience[i].title
                       ELSE <<" ", "a", "t", " ">> \o p.experience[i].company)
       /\ \A i \in DOMAIN p.education :
            EndsWith(lines[k + Len(p.experience) + i],
                     <<" ", "f", "r", "o", "m", " ">> \o p.education[i].school)

\* A call has flattened a snapshot with every section present, two experience
\* entries and two education entries.
C12_Witness ==
  /\ Extracted
  /\ ~out.threw
  /\ \A f \in {"headline", "location", "about"} : Truthy(out.value.profile[f])
  /\ out.value.profile.skills # <<>>
  /\ Len(out.value.profile.experience) = 2
  /\ Len(out.value.profile.education) = 2

(***************************************************************************)
(* The date parser alone: parseDateRange over the date cell of an          *)
(* experience item                                                         *)
(***************************************************************************)

\* The pieces a date cell is written with.
DateTokens ==
  { <<"2", "0", "1", "8">>,
    <<"J", "a", "n", " ", "2", "0", "2", "0">>,
    Present,
    <<" ", "-", " ">>,
    <<" ", EnDash, " ">>,
    <<" ", "x">> }

\* The text of the date cell as the page holds it.
RawDate == doc[ExperienceRoot].els[1].items[1].date.text

\* The text parseDateRange is called with.
DateText == getTextContent(doc[ExperienceRoot].els[1].items[1].date)

\* The page shows an experience item with a date cell, its text still empty.
RenderDate ==
  /\ out = NoOut
  /\ doc = EmptyDocument
  /\ doc' = WithItems(ExperienceRoot,
                      <<ExperienceItem(Null, Null, TextElement(<<>>), Null, Null, FALSE)>>)
  /\ UNCHANGED <<href, out, prev, locals, panel, client>>

\* The text of the date cell grows by one piece.
TypeDate(token) ==
  /\ out = NoOut
  /\ doc[ExperienceRoot].els # <<>>
  /\ Len(RawDate) + Len(token) <= MaxDateLen
  /\ doc' = WithItems(ExperienceRoot,
                      <<ExperienceItem(Null, Null, TextElement(RawDate \o token),
                                       Null, Null, FALSE)>>)
  /\ UNCHANGED <<href, out, prev, locals, panel, client>>

\* parseDateRange(getTextContent(dateEl))
CallParseDateRange ==
  /\ out = NoOut
  /\ doc[ExperienceRoot].els # <<>>
  /\ out' = Out("parseDateRange", Returned(parseDateRange(DateText)))
  /\ UNCHANGED <<doc, href, prev, locals, panel, client>>

NextDates == RenderDate \/ (\E token \in DateTokens : TypeDate(token)) \/ CallParseDateRange

SpecDates == Init /\ [][NextDates]_vars

\* The item the page shows in a section, with the text of its date cell: a titled
\* position or a school.
DatedItem(s, text) ==
  IF s = ExperienceRoot
  THEN ExperienceItem(TextElement(<<"T">>), Null, TextElement(text), Null, Null, FALSE)
  ELSE EducationItem(TextElement(<<"S">>), Null, TextElement(text), FALSE)

\* The page shows one item in a section, the text of its date cell still empty.
ShowDated(s) ==
  /\ out = NoOut
  /\ doc = EmptyDocument
  /\ doc' = WithItems(s, <<DatedItem(s, <<>>)>>)
  /\ UNCHANGED <<href, out, prev, locals, panel, client>>

\* The text of that date cell grows by one piece.
TypePeriod(s, token) ==
  /\ out = NoOut
  /\ doc[s].els # <<>>
  /\ Len(ItemsOf(s)[1].date.text) + Len(token) <= MaxDateLen
  /\ doc' = WithItems(s, <<DatedItem(s, ItemsOf(s)[1].date.text \o token)>>)
  /\ UNCHANGED <<href, out, prev, locals, panel, client>>

NextPeriods ==
  \/ \E s \in {ExperienceRoot, EducationRoot} : ShowDated(s)
  \/ \E s \in {ExperienceRoot, EducationRoot}, token \in DateTokens : TypePeriod(s, token)
  \/ Extract

SpecPeriods == Init /\ [][NextPeriods]_vars

Letters == Range(UpperCase) \cup Range(LowerCase)

\* A 4-digit year, or a month followed by a 4-digit year.
IsPeriod(s) ==
  \/ Len(s) = 4 /\ AllIn(s, 1, 4, Digits)
  \/ \E w \in 1..(Len(s) - 4) :
       /\ AllIn(s, 1, w, Letters)
       /\ AllIn(s, w + 1, Len(s) - 4, WhiteSpace)
       /\ AllIn(s, Len(s) - 3, Len(s), Digits)

\* A hyphen or an en-dash, white space around it or not.
IsSeparator(s) ==
  \E k \in DOMAIN s :
    s[k] \in Dashes /\ AllIn(s, 1, k - 1, WhiteSpace) /\ AllIn(s, k + 1, Len(s), WhiteSpace)

\* Text t is a period up to t[i], a separator up to t[j], then a period or "Present".
IsRangeAt(t, i, j) ==
  /\ IsPeriod(SubSeq(t, 1, i))
  /\ IsSeparator(SubSeq(t, i + 1, j))
  /\ IsPeriod(SubSeq(t, j + 1, Len(t))) \/ SubSeq(t, j + 1, Len(t)) = Present

IsRange(t) == \E i \in 1..Len(t) : \E j \in (i + 1)..(Len(t) - 1) : IsRangeAt(t, i, j)

\* C13: parseDateRange returns start and end, the two periods, for text of the shape
\* <period> <hyphen or en-dash> <period or "Present">; for every other text, empty
\* or more complex, start and end are both absent.
C13_ExactShapeOnly ==
  out.op = "parseDateRange" =>
    LET t == DateText
        r == out.value
    IN IF IsRange(t)
       THEN \E i \in 1..Len(t) : \E j \in (i + 1)..(Len(t) - 1) :
              /\ IsRangeAt(t, i, j)
              /\ r.start = SubSeq(t, 1, i)
              /\ r.end = SubSeq(t, j + 1, Len(t))
       ELSE r.start = undefined /\ r.end = undefined

(***************************************************************************)
(* The headline parser alone: parseHeadlineForJob over the text of the     *)
(* headline element                                                        *)
(***************************************************************************)

HeadlineSelector == SELECTORS.headline[1]

\* The pieces a headline is written with.
HeadlineTokens == { <<"D">>, <<" ", "a", "t", " ">>, <<"|">>, <<" ", MiddleDot>> }

RawHeadline == doc[HeadlineSelector].els[1].text

\* The page shows the headline element, its text still empty.
RenderHeadline ==
  /\ out = NoOut
  /\ doc = EmptyDocument
  /\ doc' = [doc EXCEPT ![HeadlineSelector] = Outcome(FALSE, <<TextElement(<<>>)>>)]
  /\ UNCHANGED <<href, out, prev, locals, panel, client>>

\* The text of the headline element grows by one piece.
TypeHeadline(token) ==
  /\ out = NoOut
  /\ doc[HeadlineSelector].els # <<>>
  /\ Len(RawHeadline) + Len(token) <= MaxHeadlineLen
  /\ doc' = [doc EXCEPT ![HeadlineSelector] =
               Outcome(FALSE, <<TextElement(RawHeadline \o token)>>)]
  /\ UNCHANGED <<href, out, prev, locals, panel, client>>

\* parseHeadlineForJob(headline) with headline = extractHeadline()
CallParseHeadlineForJob ==
  /\ out = NoOut
  /\ out' = Out("parseHeadlineForJob", Returned(parseHeadlineForJob(extractHeadline(doc))))
  /\ UNCHANGED <<doc, href, prev, locals, panel, client>>

NextHeadline ==
  RenderHeadline \/ (\E token \in HeadlineTokens : TypeHeadline(token))
    \/ CallParseHeadlineForJob

SpecHeadline == Init /\ [][NextHeadline]_vars

\* The company h[c+1..d] ends at the next separator: it holds none, and the end of
\* the headline or a separator follows it.
EndsAtNextSeparator(h, c, d) ==
  /\ c < d
  /\ \A i \in (c + 1)..d : h[i] \notin Separators
  /\ d = Len(h) \/ \E e \in d..(Len(h) - 1) :
                     AllIn(h, d + 1, e, WhiteSpace) /\ h[e + 1] \in Separators

\* h reads <title> at <company>, the company ending at the next separator.
AtSplit(h, title, company) ==
  \E a \in 1..Len(h) : \E b \in (a + 1)..Len(h) : \E c \in (b + 3)..Len(h) :
    \E d \in (c + 1)..Len(h) :
      /\ title = trim(SubSeq(h, 1, a))
      /\ AllIn(h, a + 1, b, WhiteSpace)
      /\ LitAtI(h, b + 1, <<"a", "t">>)
      /\ AllIn(h, b + 3, c, WhiteSpace)
      /\ company = trim(SubSeq(h, c + 1, d))
      /\ EndsAtNextSeparator(h, c, d)

\* h reads <title> <separator> <company>, the company ending at the next separator.
PipeSplit(h, title, company) ==
  \E a \in 1..Len(h) : \E b \in a..(Len(h) - 1) : \E c \in (b + 1)..Len(h) :
    \E d \in (c + 1)..Len(h) :
      /\ title = trim(SubSeq(h, 1, a))
      /\ AllIn(h, a + 1, b, WhiteSpace)
      /\ h[b + 1] \in Separators
      /\ AllIn(h, b + 2, c, WhiteSpace)
      /\ company = trim(SubSeq(h, c + 1, d))
      /\ EndsAtNextSeparator(h, c, d)

\* C14: parseHeadlineForJob tries "<title> at <company>" first and the separator
\* pattern second; the first pattern that matches decides, and the company ends at
\* the next pipe or middle dot; a non-empty headline that matches neither is the
\* title as a whole, with no company.
C14_HeadlinePatterns ==
  out.op = "parseHeadlineForJob" =>
    LET h == extractHeadline(doc)
        r == out.value
    IN IF atMatch(h) # NoGroups THEN AtSplit(h, r.title, r.company)
       ELSE IF pipeMatch(h) # NoGroups THEN PipeSplit(h, r.title, r.company)
       ELSE h # <<>> => (r.title = h /\ r.company = undefined)

(***************************************************************************)
(* The degree parser alone: parseDegree over the degree cell of an         *)
(* education item                                                          *)
(***************************************************************************)

\* The pieces a degree cell is written with.
DegreeTokens == { <<"B">>, <<",">>, <<" ", "i", "n", " ">>, <<" ">> }

RawDegree == doc[EducationRoot].els[1].items[1].degree.text

\* The text parseDegree is called with.
DegreeText == getTextContent(doc[EducationRoot].els[1].items[1].degree)

\* The page shows an education item with a degree cell, its text still empty.
RenderDegree ==
  /\ out = NoOut
  /\ doc = EmptyDocument
  /\ doc' = WithItems(EducationRoot, <<EducationItem(Null, TextElement(<<>>), Null, FALSE)>>)
  /\ UNCHANGED <<href, out, prev, locals, panel, client>>

\* The text of the degree cell grows by one piece.
TypeDegree(token) ==
  /\ out = NoOut
  /\ doc[EducationRoot].els # <<>>
  /\ Len(RawDegree) + Len(token) <= MaxDegreeLen
  /\ doc' = WithItems(EducationRoot,
                      <<EducationItem(Null, TextElement(RawDegree \o token), Null, FALSE)>>)
  /\ UNCHANGED <<href, out, prev, locals, panel, client>>

\* parseDegree(degreeText)
CallParseDegree ==
  /\ out = NoOut
  /\ doc[EducationRoot].els # <<>>
  /\ out' = Out("parseDegree", Returned(parseDegree(DegreeText)))
  /\ UNCHANGED <<doc, href, prev, locals, panel, client>>

NextDegree == RenderDegree \/ (\E token \in DegreeTokens : TypeDegree(token)) \/ CallParseDegree

SpecDegree == Init /\ [][NextDegree]_vars

\* t split at its first comma.
FirstCommaSplit(t, degree, field) ==
  LET k == Min({i \in DOMAIN t : t[i] = ","})
  IN /\ degree = trim(SubSeq(t, 1, k - 1))
     /\ field = trim(SubSeq(t, k + 1, Len(t)))

\* t reads <degree> in <field>.
InSplit(t, degree, field) ==
  \E a \in 1..Len(t) : \E b \in (a + 1)..Len(t) : \E c \in (b + 3)..(Len(t) - 1) :
    /\ degree = trim(SubSeq(t, 1, a))
    /\ AllIn(t, a + 1, b, WhiteSpace)
    /\ LitAtI(t, b + 1, <<"i", "n">>)
    /\ AllIn(t, b + 3, c, WhiteSpace)
    /\ field = trim(SubSeq(t, c + 1, Len(t)))

\* C15: parseDegree tries "<degree>, <field>" first, splitting at the first comma,
\* and "<degree> in <field>" second; the first shape that matches decides; a
\* non-empty text that matches neither is the degree as a whole, with no field.
C15_DegreeShapes ==
  out.op = "parseDegree" =>
    LET t == DegreeText
        r == out.value
    IN IF commaMatch(t) # NoGroups THEN FirstCommaSplit(t, r.degree, r.field)
       ELSE IF inMatch(t) # NoGroups THEN InSplit(t, r.degree, r.field)
       ELSE t # <<>> => (r.degree = t /\ r.field = undefined)

(***************************************************************************)
(* The canonical URL alone: extractProfileUrl over every short location    *)
(* and canonical link                                                      *)
(***************************************************************************)

\* A URL is written with path characters, slashes and question marks.
UrlChars == {"a", "/", "?"}

UrlTexts == UNION {[1..n -> UrlChars] : n \in 0..MaxUrlLen}

\* The page is loaded at any location, with no canonical link yet.
InitUrl ==
  /\ doc = EmptyDocument
  /\ href \in UrlTexts
  /\ out = NoOut
  /\ prev = NoOut
  /\ locals = NoLocals
  /\ panel = NoPanel
  /\ client = NoClient

\* The page declares a canonical link.
RenderCanonical(url) ==
  /\ out = NoOut
  /\ doc[CanonicalSelector] = NoMatch
  /\ doc' = [doc EXCEPT ![CanonicalSelector] = Outcome(FALSE, <<Link(url)>>)]
  /\ UNCHANGED <<href, out, prev, locals, panel, client>>

CallExtractProfileUrl ==
  /\ out = NoOut
  /\ out' = Out("extractProfileUrl", Returned(extractProfileUrl(doc, href)))
  /\ UNCHANGED <<doc, href, prev, locals, panel, client>>

NextUrl == (\E url \in UrlTexts : RenderCanonical(url)) \/ CallExtractProfileUrl

SpecUrl == InitUrl /\ [][NextUrl]_vars

\* The URL the page declares, or the location when it declares none.
DeclaredUrl ==
  IF doc[CanonicalSelector].els # <<>> /\ doc[CanonicalSelector].els[1].attr # <<>>
  THEN doc[CanonicalSelector].els[1].attr
  ELSE href

\* C16: extractProfileUrl returns the canonical link when the page has one with a
\* non-empty href and the location otherwise, and for every such URL what it returns
\* holds no query string and does not end with a slash.
C16_CanonicalUrl ==
  out.op = "extractProfileUrl" =>
    LET r == out.value
    IN /\ StartsWith(DeclaredUrl, r)
       /\ Len(r) < Len(DeclaredUrl) => DeclaredUrl[Len(r) + 1] \in {"/", "?"}
       /\ \A i \in DOMAIN r : r[i] # "?"
       /\ r # <<>> => r[Len(r)] # "/"

(***************************************************************************)
(* The public identifier: extractPublicIdentifier(url)                     *)
(***************************************************************************)

\* linkedin\.com\/in\/ of the pattern, matched without regard to case.
ProfilePath ==
  <<"l", "i", "n", "k", "e", "d", "i", "n", ".", "c", "o", "m", "/", "i", "n", "/">>

\* The class [^/?#] excludes these.
SegmentEnds == {"/", "?", "#"}

\* The positions where /linkedin\.com\/in\/([^/?#]+)/i matches.
identifierMatches(url) ==
  {p \in 1..Len(url) :
     /\ LitAtI(url, p, ProfilePath)
     /\ p + Len(ProfilePath) <= Len(url)
     /\ url[p + Len(ProfilePath)] \notin SegmentEnds}

\* Group 1 of the match at p: the longest run of [^/?#] after the path.
segmentAt(url, p) ==
  LET from == p + Len(ProfilePath)
      to == Max({e \in from..Len(url) : \A i \in from..e : url[i] \notin SegmentEnds})
  IN SubSeq(url, from, to)

\* null, returned where a string is expected.
null == <<"null">>

\* A segment returned as the URL spells it.
segmentAsWritten(segment) == segment

\* match[1].toLowerCase()
lowerSegment(segment) == toLowerCase(segment)

extractPublicIdentifier(url) ==
  LET Result(P) == IF P = {} THEN null ELSE lowerSegment(segmentAt(url, Min(P)))
  IN Result(identifierMatches(url))

\* The URLs of the identifier runs: any host and path spelling, then a short rest.
IdentifierUrls ==
  {lead \o host \o path \o rest :
     lead \in { <<>>, <<"/", "/">> },
     host \in { <<"l", "i", "n", "k", "e", "d", "i", "n", ".", "c", "o", "m">>,
                <<"L", "i", "n", "k", "e", "d", "I", "n", ".", "c", "o", "m">>,
                <<"l", "i", "n", "k", "e", "d", "i", "n", "x", "c", "o", "m">>,
                <<"l", "i", "n", "k", "d", "i", "n", ".", "c", "o", "m">> },
     path \in { <<"/", "i", "n", "/">>, <<"/", "I", "N", "/">>, <<"/", "p", "u", "b", "/">>,
                <<"/", "i", "n">> },
     rest \in UNION {[1..n -> {"J", "b", "/", "?", "#"}] : n \in 0..MaxSegmentLen}}

\* A caller holds any of the URLs.
InitIdentifier ==
  /\ doc = EmptyDocument
  /\ href \in IdentifierUrls
  /\ out = NoOut
  /\ prev = NoOut
  /\ locals = NoLocals
  /\ panel = NoPanel
  /\ client = NoClient

CallExtractPublicIdentifier ==
  /\ out = NoOut
  /\ out' = Out("extractPublicIdentifier", Returned(extractPublicIdentifier(href)))
  /\ UNCHANGED <<doc, href, prev, locals, panel, client>>

\* /linkedin\.com\/in\/[^/]+/i.test(window.location.href)
isLinkedInProfilePage(location) ==
  \E p \in 1..Len(location) :
    /\ LitAtI(location, p, ProfilePath)
    /\ p + Len(ProfilePath) <= Len(location)
    /\ location[p + Len(ProfilePath)] # "/"

\* The classifier is asked about the URL the caller holds.
CallIsLinkedInProfilePage ==
  /\ prev.op = "none"
  /\ prev' = Out("isLinkedInProfilePage", Returned(isLinkedInProfilePage(href)))
  /\ UNCHANGED <<doc, href, out, locals, panel, client>>

NextIdentifier == CallExtractPublicIdentifier \/ CallIsLinkedInProfilePage

SpecIdentifier == InitIdentifier /\ [][NextIdentifier]_vars

\* The positions of URL u where the profile path stands.
PathsIn(u) == {p \in 1..Len(u) : LitAtI(u, p, ProfilePath)}

\* After the profile path at p, URL u holds a segment of length n and then its end,
\* a slash, a query string or a fragment.
SegmentIn(u, p, n) ==
  /\ n >= 1
  /\ p + 15 + n <= Len(u)
  /\ \A i \in (p + 16)..(p + 15 + n) : u[i] \notin {"/", "?", "#"}
  /\ p + 15 + n = Len(u) \/ u[p + 16 + n] \in {"/", "?", "#"}

\* C17: for a URL that holds the profile path shape, extractPublicIdentifier returns
\* the path segment after /in/, lower-cased and free of query string, fragment and
\* slash; for every other URL it returns null.
C17_PublicIdentifier ==
  out.op = "extractPublicIdentifier" =>
    LET r == out.value
    IN IF \E p \in PathsIn(href) : \E n \in 1..(Len(href) - p - 15) : SegmentIn(href, p, n)
       THEN /\ r # null
            /\ \A i \in DOMAIN r : r[i] \notin {"/", "?", "#"} \cup Range(UpperCase)
            /\ \E p \in PathsIn(href) :
                 /\ SegmentIn(href, p, Len(r))
                 /\ \A i \in DOMAIN r : r[i] = lowerChar(href[p + 15 + i])
       ELSE r = null

\* An identifier has been returned for a URL that spells host, path and segment
\* with capitals and carries a query string.
C17_Witness ==
  /\ out.op = "extractPublicIdentifier"
  /\ out.value = <<"j", "b">>
  /\ \E i \in DOMAIN href : href[i] = "J"
  /\ \E i \in DOMAIN href : href[i] = "?"
  /\ \E i \in DOMAIN href : href[i] = "N"

\* C29: the classifier and the identifier agree on every URL: the classifier
\* answers true exactly when extractPublicIdentifier returns an identifier.
C29_ClassifierAgrees ==
  (out.op = "extractPublicIdentifier" /\ prev.op = "isLinkedInProfilePage") =>
    (prev.value <=> out.value # null)

(***************************************************************************)
(* The profile panel: page classifier, extract effect and retry timer       *)
(***************************************************************************)

\* A page of the site that is not a profile; the site changes the location
\* without loading a new document.
FeedHref == <<"l", "i", "n", "k", "e", "d", "i", "n", ".", "c", "o", "m", "/", "f", "e", "e", "d", "/">>

PanelHrefs == {ProfileHref, FeedHref}

\* The id of the job the recruiter works on; "" when none is selected.
JobId == <<"j">>

\* chrome.runtime.sendMessage({ type, payload }): profile tells whether the payload
\* carries the extracted profile, by names the function that sent it.
Message(type, profile, by) == [type |-> type, profile |-> profile, by |-> by]

sendMessage(p, type, profile, by) == [p EXCEPT !.sent = @ \cup {Message(type, profile, by)}]

\* profileExtractAttemptsRef.current < 3
MaxAttempts == 3

\* The retry condition without the limit on the attempts.
retryWhileUnnamed(attempts, name) == ~Truthy(name) \/ name = Unknown

\* The condition under which extractAndUpdate sets the timer again.
retryWanted(attempts, name) ==
  attempts < MaxAttempts /\ (~Truthy(name) \/ name = Unknown)

\* setProfileData({ name, title, imageUrl })
profileDataOf(profile) ==
  [name |-> Or(profile.name, Unknown),
   title |-> Or(profile.headline, Or(profile.job_title, <<>>)),
   imageUrl |-> profile.profile_image_url]

\* The panel after extractLinkedInProfile() was called by a function at a location.
called(p, by, location) == [p EXCEPT !.call = [by |-> by, href |-> location]]

\* extractAndUpdate of run c of the effect, with r the answer of the extraction: a
\* cancelled run stops after the extraction; otherwise the profile data is set, the
\* attempt counted and the timer set again when a retry is wanted.
extractAndUpdate(p, c, r) ==
  LET Update(attempts, profile) ==
        [p EXCEPT !.profileData = profileDataOf(profile),
                  !.applied[c] = @ + 1,
                  !.profileExtractAttempts = attempts,
                  !.timers = IF retryWanted(attempts, profile.name)
                             THEN (@ \ {c}) \cup {c} ELSE @ \ {c}]
  IN IF r.threw \/ c \in p.cancelled THEN [p EXCEPT !.timers = @ \ {c}]
     ELSE Update(p.profileExtractAttempts + 1, r.value.profile)

\* A cleanup that leaves isCancelled as it is.
forgetRun(p) == [p EXCEPT !.live = 0]

\* The cleanup of the extract effect: isCancelled = true in the run that registered it.
extractCleanup(p) ==
  IF p.live = 0 THEN p ELSE [p EXCEPT !.cancelled = @ \cup {p.live}, !.live = 0]

\* The body of the extract effect up to the first extractAndUpdate(): FALSE when
\* the guard returns early.
extractEffectRuns(p, location) == p.isOpen /\ isLinkedInProfilePage(location)

\* let isCancelled = false; profileExtractAttemptsRef.current = 0
newClosure(p) ==
  [p EXCEPT !.closures = @ + 1, !.live = p.closures + 1,
            !.applied = Append(@, 0), !.profileExtractAttempts = 0]

\* checkAuthStatus() up to its await.
checkAuthStatus(p, by) ==
  sendMessage([p EXCEPT !.authRequests = @ + 1], "GET_AUTH_STATUS", FALSE, by)

\* The effects that depend on isOpen, run after isOpen changed to open: the status
\* check when opening, the cleanup of the last extract run, and the extract effect
\* with r the answer of extractLinkedInProfile().
effectsOnOpenChange(p, open, location, r) ==
  LET Opened(q) == IF open THEN checkAuthStatus(q, "effect") ELSE q
      Extracting(q) ==
        IF extractEffectRuns(q, location)
        THEN extractAndUpdate(called(newClosure(q), "effect", location), q.closures + 1, r)
        ELSE q
  IN Extracting(extractCleanup(Opened([p EXCEPT !.isOpen = open])))

\* The page as the panel's runs see it: nothing rendered yet, or the name shown.
NamedDocument ==
  [EmptyDocument EXCEPT ![NameSelector] = Outcome(FALSE, <<ElementUnder(NameSelector)>>)]

\* The extraction and the list extractors' locals of a call on the page.
extractNow ==
  /\ out' = Out("extractLinkedInProfile", extractLinkedInProfile(doc, href))
  /\ locals' = localsAfter(experiencesOf(doc), educationOf(doc), skillsOf(doc))

\* The panel when a step of it begins: the step has sent nothing yet.
Panel == [panel EXCEPT !.sent = {}]

\* The content script mounts the panel: the mount effect asks for the status.
Mount ==
  /\ ~panel.mounted
  /\ panel' = checkAuthStatus([Panel EXCEPT !.mounted = TRUE], "mount")
  /\ UNCHANGED <<doc, href, out, prev, locals, client>>

\* The host page finishes rendering the name.
PageRenders ==
  /\ doc = EmptyDocument
  /\ doc' = NamedDocument
  /\ UNCHANGED <<href, out, prev, locals, panel, client>>

\* The site moves to another page without a reload.
Navigate(url) ==
  /\ url # href
  /\ href' = url
  /\ UNCHANGED <<doc, out, prev, locals, panel, client>>

\* The toggle button: setIsOpen(true), then the effects.
ClickOpen ==
  /\ panel.mounted /\ ~panel.isOpen
  /\ panel.authRequests < MaxAuthRequests
  /\ isLinkedInProfilePage(href) => panel.closures < MaxOpenings
  /\ panel' = effectsOnOpenChange(Panel, TRUE, href, extractLinkedInProfile(doc, href))
  /\ IF isLinkedInProfilePage(href) THEN extractNow ELSE UNCHANGED <<out, locals>>
  /\ UNCHANGED <<doc, href, prev, client>>

\* The close button: setIsOpen(false), then the effects.
ClickClose ==
  /\ panel.mounted /\ panel.isOpen
  /\ panel' = effectsOnOpenChange(Panel, FALSE, href, Thrown)
  /\ UNCHANGED <<doc, href, out, prev, locals, client>>

\* The retry timer of run c fires: extractAndUpdate runs again.
RetryTimer(c) ==
  /\ c \in panel.timers
  /\ panel' = extractAndUpdate(called(Panel, "timer", href), c,
                               extractLinkedInProfile(doc, href))
  /\ extractNow
  /\ UNCHANGED <<doc, href, prev, client>>

(***************************************************************************)
(* The profile panel: status check, job selection and the buttons           *)
(***************************************************************************)

\* The answer to GET_AUTH_STATUS arrives: the rest of checkAuthStatus. A selected
\* job opens the panel once (setIsOpen(true) changes nothing when it is open), and
\* an authenticated user's jobs are loaded.
authStatusArrived(p, ok, auth, job, location, r) ==
  LET Jobs(q) == IF auth THEN sendMessage(q, "GET_JOBS", FALSE, "loadJobs") ELSE q
      AutoOpen(q) ==
        IF job # <<>> /\ ~q.hasAutoOpened
        THEN IF q.isOpen THEN [q EXCEPT !.hasAutoOpened = TRUE]
             ELSE effectsOnOpenChange([q EXCEPT !.hasAutoOpened = TRUE], TRUE, location, r)
        ELSE q
      Selected(q) == IF job # <<>> THEN [q EXCEPT !.selectedJobId = job] ELSE q
      Answered(q) == Jobs(AutoOpen(Selected([q EXCEPT !.isAuthenticated = auth])))
  IN IF ok THEN Answered([p EXCEPT !.authRequests = @ - 1])
     ELSE [p EXCEPT !.authRequests = @ - 1]

\* The response opens a closed panel on a profile page: the extract effect runs.
autoOpens(p, ok, job, location) ==
  ok /\ job # <<>> /\ ~p.hasAutoOpened /\ ~p.isOpen /\ isLinkedInProfilePage(location)

AuthStatus(ok, auth, job) ==
  /\ panel.authRequests > 0
  /\ autoOpens(panel, ok, job, href) =>
       panel.closures < MaxOpenings /\ panel.authRequests <= MaxAuthRequests - 1
  /\ panel' = authStatusArrived(Panel, ok, auth, job, href, extractLinkedInProfile(doc, href))
  /\ IF autoOpens(panel, ok, job, href) THEN extractNow ELSE UNCHANGED <<out, locals>>
  /\ UNCHANGED <<doc, href, prev, client>>

\* The buttons of the open panel are rendered for an authenticated user.
ButtonsShown == panel.mounted /\ panel.isOpen /\ panel.isAuthenticated

\* handleJobChange(jobId)
handleJobChange(p, jobId) ==
  sendMessage([p EXCEPT !.selectedJobId = jobId], "SELECT_JOB", FALSE, "handleJobChange")

SelectJob(jobId) ==
  /\ ButtonsShown
  /\ jobId # panel.selectedJobId
  /\ panel' = handleJobChange(Panel, jobId)
  /\ UNCHANGED <<doc, href, out, prev, locals, client>>

\* Times of the polling loop are counted in quarters of a millisecond, the unit in
\* which baseDelayMs * Math.pow(1.5, attempt) is exact for every value below
\* maxDelayMs.
Quarters == 4

\* const maxDurationMs = 5 * 60 * 1000
maxDurationMs == 5 * 60 * 1000 * Quarters

\* const baseDelayMs = 1200
baseDelayMs == 1200 * Quarters

\* const maxDelayMs = 15_000
maxDelayMs == 15000 * Quarters

\* baseDelayMs * Math.pow(1.5, attempt); past maxDelayMs the product is not carried
\* further, it stays above maxDelayMs.
RECURSIVE scaledDelay(_)
scaledDelay(attempt) ==
  IF attempt = 0 THEN baseDelayMs
  ELSE LET before == scaledDelay(attempt - 1)
       IN IF before >= maxDelayMs THEN before ELSE (before * 3) \div 2

\* delayMs = Math.min(maxDelayMs, baseDelayMs * Math.pow(1.5, attempt))
nextDelay(attempt) == Min({maxDelayMs, scaledDelay(attempt)})

\* setStatus({ type, message })
Status(type, message) == [type |-> type, message |-> message]

\* An import waiting for the background or for its poll timer: a call of
\* handleAddCandidate with its attemptId, isRescore and, once it polls, the
\* is_duplicate of its response, attempt, delayMs and Date.now() - startedAt when it
\* last ran.
Import(id, rescore, phase) ==
  [id |-> id, rescore |-> rescore, phase |-> phase, duplicate |-> FALSE,
   attempt |-> 0, delayMs |-> 0, elapsed |-> 0]

\* finally { setIsRescoreLoading(false) / setIsLoading(false) }
importFinally(p, rescore) ==
  IF rescore THEN [p EXCEPT !.isRescoreLoading = FALSE] ELSE [p EXCEPT !.isLoading = FALSE]

\* handleAddCandidate up to its first await, with r the answer of the extraction.
handleAddCandidate(p, isRescore, location, r) ==
  LET by == IF isRescore THEN "handleRescoreCandidate" ELSE "handleAddCandidate"
      Counted == [p EXCEPT !.importAttempt = @ + 1]
      Loading(q) ==
        IF isRescore THEN [q EXCEPT !.isRescoreLoading = TRUE]
        ELSE [q EXCEPT !.isLoading = TRUE, !.status = Null, !.importResult = Null]
      Sent(q) ==
        IF r.threw THEN importFinally([q EXCEPT !.status = Status("error", "Unknown error")], isRescore)
        ELSE sendMessage([q EXCEPT !.imports = @ \cup {Import(q.importAttempt, isRescore, "import")}],
                         "IMPORT_LINKEDIN_PROFILE", TRUE, by)
  IN IF Counted.selectedJobId = <<>>
     THEN [Counted EXCEPT !.status = Status("error", "Please select a job first")]
     ELSE IF ~isLinkedInProfilePage(location)
     THEN [Counted EXCEPT !.status = Status("error", "Not a LinkedIn profile page")]
     ELSE Sent(called(Loading(Counted), by, location))

\* A handler of the buttons reaches its call of extractLinkedInProfile().
handlerExtracts(p, location) == p.selectedJobId # <<>> /\ isLinkedInProfilePage(location)

\* The button "Add as Candidate".
ClickAddCandidate ==
  /\ ButtonsShown
  /\ ~panel.isLoading /\ panel.selectedJobId # <<>>
  /\ panel.importAttempt < MaxImports
  /\ panel' = handleAddCandidate(Panel, FALSE, href, extractLinkedInProfile(doc, href))
  /\ IF handlerExtracts(panel, href) THEN extractNow ELSE UNCHANGED <<out, locals>>
  /\ UNCHANGED <<doc, href, prev, client>>

\* canRescore: the import result is a duplicate with a score for the selected job.
canRescore(p) ==
  /\ p.importResult # Null
  /\ p.importResult.is_duplicate /\ p.importResult.score
  /\ p.importResult.job_id = p.selectedJobId

\* handleRescoreCandidate: the button "Rescore".
ClickRescore ==
  /\ ButtonsShown
  /\ canRescore(panel) /\ ~panel.isRescoreLoading
  /\ panel.importAttempt < MaxImports
  /\ panel' = handleAddCandidate(Panel, TRUE, href, extractLinkedInProfile(doc, href))
  /\ IF handlerExtracts(panel, href) THEN extractNow ELSE UNCHANGED <<out, locals>>
  /\ UNCHANGED <<doc, href, prev, client>>

\* The status line after a successful import response that carries no message of
\* its own.
importedStatus(duplicate, hasScore) ==
  IF duplicate THEN Status("info", "Candidate already exists in this job")
  ELSE IF hasScore THEN Status("success", "Candidate added successfully!")
  ELSE Status("info", "Candidate added successfully! Scoring in progress...")

\* The answer to IMPORT_LINKEDIN_PROFILE arrives: without success the handler ends;
\* with a score it ends after setImportResult; without one it enters the polling
\* loop and sets the first timer.
importAnswered(p, i, ok, duplicate, scored) ==
  LET Result == [is_duplicate |-> duplicate, score |-> scored, job_id |-> JobId]
      Ended(q) == importFinally([q EXCEPT !.imports = @ \ {i}], i.rescore)
      Shown == [p EXCEPT !.importResult = Result, !.status = importedStatus(duplicate, scored)]
      Waiting == [i EXCEPT !.phase = "wait", !.duplicate = duplicate, !.delayMs = baseDelayMs]
  IN IF ~ok THEN Ended([p EXCEPT !.status = Status("error", "Failed to add candidate")])
     ELSE IF scored THEN Ended(Shown)
     ELSE [Shown EXCEPT !.imports = (@ \ {i}) \cup {Waiting}]

ImportResponse(i, ok, duplicate, scored) ==
  /\ i \in panel.imports /\ i.phase = "import"
  /\ panel' = importAnswered(Panel, i, ok, duplicate, scored)
  /\ UNCHANGED <<doc, href, out, prev, locals, client>>

\* The poll timer of import i fires, late by some time: a superseded attempt
\* returns, the current one asks the background to resolve the candidate by its URL.
pollTimerFired(p, i, late) ==
  LET Asking == [i EXCEPT !.phase = "resolve", !.elapsed = @ + i.delayMs + late]
  IN IF p.importAttempt # i.id
     THEN importFinally([p EXCEPT !.imports = @ \ {i}], i.rescore)
     ELSE sendMessage([p EXCEPT !.imports = (@ \ {i}) \cup {Asking}],
                      "RESOLVE_LINKEDIN_CANDIDATE", FALSE, "handleAddCandidate (polling)")

PollTimer(i, late) ==
  /\ i \in panel.imports /\ i.phase = "wait"
  /\ panel' = pollTimerFired(Panel, i, late)
  /\ UNCHANGED <<doc, href, out, prev, locals, client>>

\* A loop condition that never ends the polling.
pollsForever(elapsed) == TRUE

\* while (Date.now() - startedAt < maxDurationMs)
pollsOn(elapsed) == elapsed < maxDurationMs

\* The answer to the resolve request arrives after some time: a found score ends the
\* polling; otherwise the attempt is counted, the delay set and the loop condition
\* read, and either the next timer is set or the time limit ends the polling.
resolveAnswered(p, i, found, took) ==
  LET Ended(q) == importFinally([q EXCEPT !.imports = @ \ {i}], i.rescore)
      Scored(prevResult) == IF prevResult = Null THEN Null ELSE [prevResult EXCEPT !.score = TRUE]
      Found == Status("success", IF i.duplicate THEN "Candidate updated successfully!"
                                 ELSE "Candidate added successfully!")
      Late == Status("info", "Candidate saved successfully, but scoring is taking longer than expected")
      Waiting == [i EXCEPT !.phase = "wait", !.attempt = @ + 1,
                           !.delayMs = nextDelay(i.attempt + 1), !.elapsed = @ + took]
  IN IF found THEN Ended([p EXCEPT !.importResult = Scored(@), !.status = Found])
     ELSE IF pollsOn(i.elapsed + took)
     THEN [p EXCEPT !.imports = (@ \ {i}) \cup {Waiting}]
     ELSE Ended([p EXCEPT !.status = Late])

ResolveResponse(i, found, took) ==
  /\ i \in panel.imports /\ i.phase = "resolve"
  /\ panel' = resolveAnswered(Panel, i, found, took)
  /\ UNCHANGED <<doc, href, out, prev, locals, client>>

\* handleCreateIcp up to its await.
handleCreateIcp(p, location, r) ==
  LET Sent(q) ==
        IF r.threw THEN [q EXCEPT !.isIcpLoading = FALSE]
        ELSE sendMessage(q, "CREATE_ICP_FROM_PROFILE", TRUE, "handleCreateIcp")
  IN IF p.selectedJobId = <<>> THEN p
     ELSE IF ~isLinkedInProfilePage(location) THEN p
     ELSE Sent(called([p EXCEPT !.isIcpLoading = TRUE], "handleCreateIcp", location))

\* The button "Use as Ideal Profile".
ClickCreateIcp ==
  /\ ButtonsShown
  /\ ~panel.isIcpLoading /\ panel.selectedJobId # <<>>
  /\ panel' = handleCreateIcp(Panel, href, extractLinkedInProfile(doc, href))
  /\ IF handlerExtracts(panel, href) THEN extractNow ELSE UNCHANGED <<out, locals>>
  /\ UNCHANGED <<doc, href, prev, client>>

\* The answer to CREATE_ICP_FROM_PROFILE arrives.
IcpResponse ==
  /\ panel.isIcpLoading
  /\ panel' = [Panel EXCEPT !.isIcpLoading = FALSE]
  /\ UNCHANGED <<doc, href, out, prev, locals, client>>

\* handleDraftInmail up to its first await: known tells whether the import result
\* names the candidate of this profile.
handleDraftInmail(p, known, location, r) ==
  LET by == "handleDraftInmail"
      CanUseImport(q) ==
        q.importResult # Null /\ q.importResult.job_id = q.selectedJobId /\ known
      Drafting(q) ==
        IF CanUseImport(q)
        THEN sendMessage([q EXCEPT !.inmail = "draft"], "DRAFT_LINKEDIN_INMAIL", FALSE, by)
        ELSE sendMessage([q EXCEPT !.inmail = "resolve"], "RESOLVE_LINKEDIN_CANDIDATE", FALSE, by)
      Sent(q) ==
        IF r.threw \/ ~Truthy(r.value.profileUrl) THEN [q EXCEPT !.isInmailLoading = FALSE]
        ELSE Drafting(q)
  IN IF p.selectedJobId = <<>> THEN p
     ELSE IF ~isLinkedInProfilePage(location) THEN p
     ELSE Sent(called([p EXCEPT !.isInmailLoading = TRUE], by, location))

\* The button "Draft InMail".
ClickDraftInmail(known) ==
  /\ ButtonsShown
  /\ ~panel.isInmailLoading /\ panel.selectedJobId # <<>>
  /\ panel' = handleDraftInmail(Panel, known, href, extractLinkedInProfile(doc, href))
  /\ IF handlerExtracts(panel, href) THEN extractNow ELSE UNCHANGED <<out, locals>>
  /\ UNCHANGED <<doc, href, prev, client>>

\* An answer to handleDraftInmail arrives: a resolved candidate is followed by the
\* draft request; every other answer ends the handler.
inmailAnswered(p, found) ==
  IF p.inmail = "resolve" /\ found
  THEN sendMessage([p EXCEPT !.inmail = "draft"], "DRAFT_LINKEDIN_INMAIL", FALSE,
                   "handleDraftInmail")
  ELSE [p EXCEPT !.inmail = "none", !.isInmailLoading = FALSE]

InmailResponse(found) ==
  /\ panel.inmail # "none"
  /\ panel' = inmailAnswered(Panel, found)
  /\ UNCHANGED <<doc, href, out, prev, locals, client>>

\* The panel with its effect, the retry timer and the page around it.
NextPanel ==
  \/ Mount
  \/ PageRenders
  \/ \E url \in PanelHrefs : Navigate(url)
  \/ ClickOpen
  \/ ClickClose
  \/ \E c \in 1..MaxOpenings : RetryTimer(c)
  \/ \E ok, auth \in BOOLEAN, job \in {<<>>, JobId} : AuthStatus(ok, auth, job)

SpecPanel == Init /\ [][NextPanel]_vars

\* The page and the background are slow here: a timer is late by half of the time
\* limit or by all of it, and so is an answer to the resolve request, so that few
\* polls fit in the limit.
SlowTimes == {maxDurationMs \div 2, maxDurationMs}

\* The panel with its buttons on a profile page that has finished rendering.
InitButtons ==
  /\ doc = NamedDocument
  /\ href = ProfileHref
  /\ out = NoOut
  /\ prev = NoOut
  /\ locals = NoLocals
  /\ panel = NoPanel
  /\ client = NoClient

NextButtons ==
  \/ Mount
  \/ ClickOpen
  \/ \E ok, auth \in BOOLEAN, job \in {<<>>, JobId} : AuthStatus(ok, auth, job)
  \/ \E jobId \in {<<>>, JobId} : SelectJob(jobId)
  \/ ClickAddCandidate
  \/ ClickRescore
  \/ \E i \in panel.imports, ok, duplicate, scored \in BOOLEAN : ImportResponse(i, ok, duplicate, scored)
  \/ \E i \in panel.imports, late \in SlowTimes : PollTimer(i, late)
  \/ \E i \in panel.imports, found \in BOOLEAN, took \in SlowTimes : ResolveResponse(i, found, took)
  \/ ClickCreateIcp
  \/ IcpResponse
  \/ \E known \in BOOLEAN : ClickDraftInmail(known)
  \/ \E found \in BOOLEAN : InmailResponse(found)

SpecButtons == InitButtons /\ [][NextButtons]_vars

\* Times a prompt page and background take: a timer fires when it is due, and a
\* resolve request is answered at once or after half of the time limit.
PromptTimes == {0, maxDurationMs \div 2}

\* The import and its polling loop, with an authenticated user and a selected job.
NextPolling ==
  \/ Mount
  \/ ClickOpen
  \/ AuthStatus(TRUE, TRUE, JobId)
  \/ ClickAddCandidate
  \/ ClickRescore
  \/ \E i \in panel.imports, ok, duplicate, scored \in BOOLEAN : ImportResponse(i, ok, duplicate, scored)
  \/ \E i \in panel.imports : PollTimer(i, 0)
  \/ \E i \in panel.imports, found \in BOOLEAN, took \in PromptTimes : ResolveResponse(i, found, took)

SpecPolling == InitButtons /\ [][NextPolling]_vars

(***************************************************************************)
(* Claims C18 to C20: the panel as a caller of the extraction               *)
(***************************************************************************)

\* C18: every call of extractLinkedInProfile() the panel makes (first extraction on
\* open, retry timer, add candidate, rescore, create ICP, draft InMail) comes after a
\* check of isLinkedInProfilePage() in the same step, so it is made at a location
\* for which the check is true.
C18_CheckedBeforeExtract ==
  panel.call.by # "none" => isLinkedInProfilePage(panel.call.href)

\* C19: a message that carries the extracted profile is handed to the background
\* only by the click on "Add as Candidate": no other button and no automatic step
\* (mount, opening, status answer, poll timer) sends one.
C19_OnlyAddCandidateSends ==
  \A m \in panel.sent : m.profile => m.by = "handleAddCandidate"

\* C20: for each opening of the panel the extraction result is applied at most three
\* times; a retry timer is pending only after an application that found no name
\* and before the third attempt, so every firing of the timer either ends the chain
\* or uses up one of the attempts that are left.
C20_RetryBounded ==
  /\ \A c \in 1..panel.closures : panel.applied[c] <= MaxAttempts
  /\ \A c \in panel.timers : panel.applied[c] >= 1 /\ panel.applied[c] < MaxAttempts
  /\ panel.live \in panel.timers =>
       /\ panel.profileData.name = Unknown
       /\ panel.profileExtractAttempts = panel.applied[panel.live]
  /\ (panel.live # 0 /\ panel.live \notin panel.timers) =>
       \/ panel.profileData.name # Unknown
       \/ panel.applied[panel.live] = MaxAttempts

\* An opening has used its three attempts without finding a name: no timer is left.
C20_Witness ==
  \E c \in 1..panel.closures :
    /\ panel.applied[c] = MaxAttempts
    /\ c \notin panel.timers
    /\ panel.profileData.name = Unknown

(***************************************************************************)
(* The credential store and the API client                                  *)
(***************************************************************************)

\* AuthTokens: refresh_token 0 and expires_at 0 stand for undefined.
Tokens(access, refresh, expires) ==
  [access_token |-> access, refresh_token |-> refresh, expires_at |-> expires]

\* getAuthTokens(): the stored tokens, or null when nothing is stored or the read
\* throws.
getAuthTokens(store, readFails) == IF readFails THEN NoTokens ELSE store.auth

setAuthTokens(store, tokens) == [store EXCEPT !.auth = tokens]

setUserInfo(store) == [store EXCEPT !.user = TRUE]

setSelectedJobId(store) == [store EXCEPT !.selected_job = TRUE]

setApiBaseUrl(store, url) == [store EXCEPT !.api_base_url = url]

\* A clear that leaves the tokens in the store.
clearUserAndJob(store) == [store EXCEPT !.user = FALSE, !.selected_job = FALSE]

\* clearAllStorageData(): clearAuthTokens, clearUserInfo and clearSelectedJobId.
clearAllStorageData(store) ==
  [store EXCEPT !.auth = NoTokens, !.user = FALSE, !.selected_job = FALSE]

\* Date.now() + Math.max(0, expires_in - 30) * 1000, with the clock counted in
\* seconds; an absent or zero expires_in (refresh only) records no expiry.
ExpiryMargin == 30

expiresAt(now, expires_in) ==
  now + (IF expires_in > ExpiryMargin THEN expires_in - ExpiryMargin ELSE 0)

\* tokens?.access_token, tokens?.refresh_token
hasAccessToken(tokens) == tokens # NoTokens /\ tokens.access_token # 0

hasRefreshToken(tokens) == tokens # NoTokens /\ tokens.refresh_token # 0

\* How a call of apiFetch ends.
NoOutcome == [kind |-> "none", status |-> 0, code |-> ""]

Resolved == [kind |-> "returned", status |-> 200, code |-> ""]

ApiError(status, code) == [kind |-> "ApiError", status |-> status, code |-> code]

NetworkError == ApiError(0, "NETWORK_ERROR")

\* What fetch() may give: a response with a status, or an exception.
FetchAnswers == {200, 401, 500, 0}

\* handleResponse(response): the body of an ok response, else an ApiError with the
\* status; answer 0 is the exception of fetch, wrapped by the catch of apiFetch.
handleResponse(answer) ==
  IF answer = 0 THEN NetworkError
  ELSE IF answer = 200 THEN Resolved
  ELSE ApiError(answer, "HTTP_ERROR")

\* A call of apiFetch after its first fetch() was sent: tokens is what the call read
\* from the store, bearer the token of its last Authorization header, first and
\* second the answers to its requests (-1: not answered yet), refreshed the tokens
\* its refresh obtained, left the store as its refresh step left it.
apiFetch(store, readFails) ==
  LET Started(tokens) ==
        [tokens |-> tokens, phase |-> "fetch", requests |-> 1, refreshes |-> 0,
         bearer |-> IF hasAccessToken(tokens) THEN tokens.access_token ELSE 0,
         first |-> -1, second |-> -1, refreshed |-> NoTokens, left |-> store,
         outcome |-> NoOutcome]
  IN Started(getAuthTokens(store, readFails))

\* The first response arrives: a 401 of a call that holds a refresh token starts
\* refreshAccessToken; every other answer ends the call.
firstAnswered(call, answer) ==
  IF answer = 401 /\ hasRefreshToken(call.tokens)
  THEN [call EXCEPT !.first = answer, !.phase = "refresh", !.refreshes = @ + 1]
  ELSE [call EXCEPT !.first = answer, !.phase = "done", !.outcome = handleResponse(answer)]

\* What the refresh endpoint may give: tokens with or without a refresh token and an
\* expiry, a response that is not ok, a body without an access token, an exception.
RefreshAnswers == {"tokens", "access only", "rejected", "unexpected", "throws"}

\* refreshAccessToken(refreshToken) after the answer: the tokens, or null.
refreshAccessToken(answer, now, number, expires_in) ==
  IF answer = "tokens" THEN Tokens(number, number, IF expires_in = 0 THEN 0 ELSE expiresAt(now, expires_in))
  ELSE IF answer = "access only" THEN Tokens(number, 0, 0)
  ELSE NoTokens

\* The client after the refresh of call c was answered: new tokens are stored and
\* the request is sent again with them; without tokens the store is cleared and
\* the call ends with SESSION_EXPIRED.
refreshAnswered(cl, c, refreshed) ==
  LET call == cl.calls[c]
      Retried(store) ==
        [cl EXCEPT !.store = store, !.issued = @ + 1,
                   !.calls[c] = [call EXCEPT !.phase = "retry", !.requests = @ + 1,
                                             !.bearer = refreshed.access_token,
                                             !.refreshed = refreshed, !.left = store]]
      Expired(store) ==
        [cl EXCEPT !.store = store,
                   !.calls[c] = [call EXCEPT !.phase = "done", !.left = store,
                                             !.outcome = ApiError(401, "SESSION_EXPIRED")]]
  IN IF refreshed # NoTokens THEN Retried(setAuthTokens(cl.store, refreshed))
     ELSE Expired(clearAllStorageData(cl.store))

\* A retry that answers a second 401 with another refresh.
retryRefreshing(call, answer) ==
  IF answer = 401
  THEN [call EXCEPT !.second = answer, !.phase = "refresh", !.refreshes = @ + 1]
  ELSE [call EXCEPT !.second = answer, !.phase = "done", !.outcome = handleResponse(answer)]

\* The answer to the retried request ends the call.
retryAnswered(call, answer) ==
  [call EXCEPT !.second = answer, !.phase = "done", !.outcome = handleResponse(answer)]

\* The store after a login and a job selection: what the calls of the API start from.
LoggedIn == [NoClient EXCEPT !.store = setSelectedJobId(setUserInfo(setAuthTokens(NoStore, Tokens(1, 1, expiresAt(1, MaxExpiresIn))))),
                             !.issued = 1]

InitClient ==
  /\ doc = EmptyDocument
  /\ href = ProfileHref
  /\ out = NoOut
  /\ prev = NoOut
  /\ locals = NoLocals
  /\ panel = NoPanel
  /\ client = LoggedIn

\* A handler of the background calls apiFetch: the store is read, the request sent.
ApiFetch(readFails) ==
  /\ Len(client.calls) < MaxCalls
  /\ client' = [client EXCEPT !.calls = Append(@, apiFetch(client.store, readFails))]
  /\ UNCHANGED <<doc, href, out, prev, locals, panel>>

FetchResponse(c, answer) ==
  /\ client.calls[c].phase = "fetch"
  /\ client' = [client EXCEPT !.calls[c] = firstAnswered(@, answer)]
  /\ UNCHANGED <<doc, href, out, prev, locals, panel>>

RefreshResponse(c, answer, expires_in) ==
  /\ client.calls[c].phase = "refresh"
  /\ client' = refreshAnswered(client, c,
                  refreshAccessToken(answer, client.now, client.issued + 1, expires_in))
  /\ UNCHANGED <<doc, href, out, prev, locals, panel>>

RetryResponse(c, answer) ==
  /\ client.calls[c].phase = "retry"
  /\ client' = [client EXCEPT !.calls[c] = retryAnswered(@, answer)]
  /\ UNCHANGED <<doc, href, out, prev, locals, panel>>

NextClient ==
  \/ \E readFails \in BOOLEAN : ApiFetch(readFails)
  \/ \E c \in DOMAIN client.calls, answer \in FetchAnswers : FetchResponse(c, answer)
  \/ \E c \in DOMAIN client.calls, answer \in RefreshAnswers, expires_in \in {0, ExpiryMargin, MaxExpiresIn} :
       RefreshResponse(c, answer, expires_in)
  \/ \E c \in DOMAIN client.calls, answer \in FetchAnswers : RetryResponse(c, answer)

SpecClient == InitClient /\ [][NextClient]_vars

\* The token counts as expired one tick late.
expiredAfter(tokens, now) == tokens.expires_at # 0 /\ now > tokens.expires_at

\* tokens.expires_at && Date.now() >= tokens.expires_at
expired(tokens, now) == tokens.expires_at # 0 /\ now >= tokens.expires_at

\* isAuthenticated()
isAuthenticated(tokens, now) ==
  IF ~hasAccessToken(tokens) THEN FALSE
  ELSE IF expired(tokens, now) THEN FALSE
  ELSE TRUE

\* Time passes.
Tick ==
  /\ client.now < MaxNow
  /\ client' = [client EXCEPT !.now = @ + 1]
  /\ UNCHANGED <<doc, href, out, prev, locals, panel>>

\* A caller asks isAuthenticated(); the answer is kept with what the store held and
\* what the clock showed at the call.
CallIsAuthenticated(readFails) ==
  /\ out' = Out("isAuthenticated",
                Returned([answer |-> isAuthenticated(getAuthTokens(client.store, readFails),
                                                     client.now),
                          stored |-> client.store.auth, now |-> client.now,
                          readFails |-> readFails]))
  /\ UNCHANGED <<doc, href, prev, locals, panel, client>>

(***************************************************************************)
(* The LOGIN message                                                        *)
(***************************************************************************)

\* url.trim().replace(/\/+$/, "")
RECURSIVE dropTrailingSlashes(_)
dropTrailingSlashes(url) ==
  IF url # <<>> /\ url[Len(url)] = "/" THEN dropTrailingSlashes(SubSeq(url, 1, Len(url) - 1))
  ELSE url

normalizeApiBaseUrl(url) == dropTrailingSlashes(trim(url))

\* new URL(url), as far as the login needs it: the scheme before the first colon,
\* and, for http and https, a host after it; without either the constructor throws.
Http == <<"h", "t", "t", "p", ":">>

Https == <<"h", "t", "t", "p", "s", ":">>

hostAfter(url, scheme) ==
  \E k \in (Len(scheme) + 1)..Len(url) :
    /\ url[k] # "/"
    /\ \A j \in (Len(scheme) + 1)..(k - 1) : url[j] = "/"

\* validateApiBaseUrl(url): "" stands for null, no error.
validateApiBaseUrl(url) ==
  IF LitAtI(url, 1, Https) THEN (IF hostAfter(url, Https) THEN "" ELSE "Invalid API URL")
  ELSE IF LitAtI(url, 1, Http) THEN (IF hostAfter(url, Http) THEN "" ELSE "Invalid API URL")
  ELSE IF \E k \in 2..Len(url) : url[k] = ":" /\ \A j \in 1..(k - 1) : url[j] \in Range(LowerCase) \cup Range(UpperCase)
  THEN "API URL must start with http:// or https://"
  ELSE "Invalid API URL"

\* handleLogin(payload) up to the await of apiLogin: an API URL in the payload is
\* normalised, checked and stored; a URL that fails the check ends the handler.
handleLogin(cl, apiBaseUrl) ==
  LET Asked(normalized) ==
        IF ~Truthy(normalized)
        THEN [cl EXCEPT !.login = [phase |-> "pending", before |-> cl.store,
                                   url |-> normalized, success |-> FALSE]]
        ELSE IF validateApiBaseUrl(normalized) # ""
        THEN [cl EXCEPT !.login = [phase |-> "answered", before |-> cl.store,
                                   url |-> normalized, success |-> FALSE]]
        ELSE [cl EXCEPT !.store = setApiBaseUrl(@, normalized),
                        !.login = [phase |-> "pending", before |-> cl.store,
                                   url |-> normalized, success |-> FALSE]]
  IN Asked(IF Truthy(apiBaseUrl) THEN normalizeApiBaseUrl(apiBaseUrl) ELSE <<>>)

\* What the login endpoint may give: a login response, a response that is not ok, a
\* body that is not JSON, a payload without access token or expires_in, an exception.
LoginAnswers == {"ok", "rejected", "not JSON", "unexpected", "throws"}

\* handleLogin after apiLogin: the tokens and the user are stored after a login
\* response; every other answer is caught and answered with success: false.
loginAnswered(cl, answer, expires_in) ==
  LET Stored(tokens) ==
        [cl EXCEPT !.store = setUserInfo(setAuthTokens(@, tokens)), !.issued = @ + 1,
                   !.login.phase = "answered", !.login.success = TRUE]
  IN IF answer = "ok"
     THEN Stored(Tokens(cl.issued + 1, cl.issued + 1, expiresAt(cl.now, expires_in)))
     ELSE [cl EXCEPT !.login.phase = "answered", !.login.success = FALSE]

\* The API URLs a LOGIN message may carry.
LoginUrls ==
  { <<>>, <<" ">>,
    <<"h", "t", "t", "p", ":", "/", "/", "b", "/", "/">>,
    <<" ", "H", "T", "T", "P", "S", ":", "/", "/", "b">>,
    <<"h", "t", "t", "p", ":", "/", "/">>,
    <<"f", "t", "p", ":", "/", "/", "b">>,
    <<"b">> }

LoginMessage(apiBaseUrl) ==
  /\ client.login.phase # "pending"
  /\ client.issued < MaxIssued
  /\ client' = handleLogin(client, apiBaseUrl)
  /\ UNCHANGED <<doc, href, out, prev, locals, panel>>

LoginResponse(answer, expires_in) ==
  /\ client.login.phase = "pending"
  /\ client' = loginAnswered(client, answer, expires_in)
  /\ UNCHANGED <<doc, href, out, prev, locals, panel>>

\* handleSelectJob(payload): setSelectedJobId. The record of the last LOGIN ends
\* with the next message that changes the store.
SelectJobMessage ==
  /\ client.login.phase # "pending"
  /\ ~client.store.selected_job
  /\ client' = [client EXCEPT !.store = setSelectedJobId(@), !.login = NoLogin]
  /\ UNCHANGED <<doc, href, out, prev, locals, panel>>

\* handleLogout(): clearAllStorageData().
Logout ==
  /\ client.login.phase # "pending"
  /\ client.store.auth # NoTokens
  /\ client' = [client EXCEPT !.store = clearAllStorageData(@), !.login = NoLogin]
  /\ UNCHANGED <<doc, href, out, prev, locals, panel>>

NextLogin ==
  \/ \E apiBaseUrl \in LoginUrls : LoginMessage(apiBaseUrl)
  \/ \E answer \in LoginAnswers, expires_in \in {0, ExpiryMargin, MaxExpiresIn} :
       LoginResponse(answer, expires_in)
  \/ SelectJobMessage
  \/ Logout

SpecLogin == Init /\ [][NextLogin]_vars

\* refreshAccessToken(refreshToken) called with the stored refresh token: tokens
\* the endpoint gives are stored.
CallRefreshAccessToken(answer, expires_in) ==
  /\ client.login.phase # "pending"
  /\ hasRefreshToken(client.store.auth)
  /\ client.issued < MaxIssued
  /\ LET Refreshed(tokens) ==
           IF tokens = NoTokens THEN client
           ELSE [client EXCEPT !.store = setAuthTokens(@, tokens), !.issued = @ + 1,
                               !.login = NoLogin]
     IN client' = Refreshed(refreshAccessToken(answer, client.now, client.issued + 1, expires_in))
  /\ UNCHANGED <<doc, href, out, prev, locals, panel>>

\* The store with logins, refreshes, logouts and the clock, and isAuthenticated()
\* asked at any time.
NextStore ==
  \/ \E apiBaseUrl \in {<<>>} : LoginMessage(apiBaseUrl)
  \/ \E answer \in LoginAnswers, expires_in \in {0, ExpiryMargin, MaxExpiresIn} :
       LoginResponse(answer, expires_in)
  \/ \E answer \in RefreshAnswers, expires_in \in {0, ExpiryMargin, MaxExpiresIn} :
       CallRefreshAccessToken(answer, expires_in)
  \/ Logout
  \/ Tick
  \/ \E readFails \in BOOLEAN : CallIsAuthenticated(readFails)

SpecStore == Init /\ [][NextStore]_vars

(***************************************************************************)
(* Claims C21 to C23: token refresh and the credential store                *)
(***************************************************************************)

\* Call c received 401 to its first request while it held a refresh token.
Unauthorized(call) == call.first = 401 /\ hasRefreshToken(call.tokens)

C22_AuthenticatedExactly ==
  out.op = "isAuthenticated" =>
    LET r == out.value
    IN r.answer <=>
         /\ ~r.readFails
         /\ r.stored # NoTokens
         /\ r.stored.expires_at = 0 \/ r.now < r.stored.expires_at

\* The call was made at the very instant of the expiry and answered false.
C22_Witness ==
  /\ out.op = "isAuthenticated"
  /\ ~out.value.readFails /\ out.value.stored # NoTokens
  /\ out.value.now = out.value.stored.expires_at
  /\ ~out.value.answer

\* Every call of apiFetch has ended.
AllDone == \A c \in DOMAIN client.calls : client.calls[c].phase = "done"

\* C23: with several requests in flight that each receive 401, a failed refresh of
\* one request never removes what a successful refresh of another stored: when all
\* have ended and at least one refresh gave tokens, the store still holds tokens,
\* the user info and the selected job.
C23_RefreshedTokensKept ==
  (AllDone /\ \E c \in DOMAIN client.calls : client.calls[c].refreshed # NoTokens) =>
    /\ client.store.auth # NoTokens
    /\ client.store.user
    /\ client.store.selected_job

\* C27: a LOGIN message answered with success: false leaves the credential store as
\* it was when the message arrived: tokens, user info, selected job and API base
\* URL.
C27_FailedLoginChangesNothing ==
  (client.login.phase = "answered" /\ ~client.login.success) =>
    client.store = client.login.before

(***************************************************************************)
(* Claims C24 to C26: import attempts and retries that were overtaken       *)
(***************************************************************************)

\* Import i polls (it waits for its timer or for the answer to its resolve request)
\* and a newer call of handleAddCandidate has started.
Superseded(i) == i.phase # "import" /\ i.id < panel.importAttempt

\* The step is one of import i: its timer fired or its answer arrived.
StepOf(i) == i \notin panel'.imports /\ panel'.importAttempt = panel.importAttempt

\* C24: once a newer import attempt has started, a step of an older attempt's
\* polling loop changes neither the status line nor the import result, and
\* does not change the loading flag of a newer attempt that is still running.
C24_SupersededLoopIsSilent ==
  [][\A i \in panel.imports :
       (Superseded(i) /\ StepOf(i)) =>
         /\ panel'.status = panel.status
         /\ panel'.importResult = panel.importResult
         /\ \A j \in panel.imports :
              j.id > i.id =>
                IF j.rescore THEN panel'.isRescoreLoading = panel.isRescoreLoading
                ELSE panel'.isLoading = panel.isLoading]_vars

\* The loading flag of an import of the kind of i.
LoadingFlag(p, i) == IF i.rescore THEN p.isRescoreLoading ELSE p.isLoading

\* Import i is in its polling loop in panel p: its delay lies between baseDelayMs
\* and maxDelayMs and is baseDelayMs for the first poll; while it waits for its
\* timer the time limit has not passed at the last reading of the clock, and each
\* of its polls took its share of the time.
PollingWithinLimits(i) ==
  /\ i.delayMs >= baseDelayMs /\ i.delayMs <= maxDelayMs
  /\ i.attempt = 0 => i.delayMs = baseDelayMs
  /\ i.elapsed >= i.attempt * baseDelayMs
  /\ i.phase = "wait" => i.elapsed < maxDurationMs

\* C25: every import without a score ends its polling and resets its flag. Each
\* step leaves every polling import within its limits (so the polls of one import
\* are fewer than maxDurationMs / baseDelayMs), the delay of an import that polls on is not
\* smaller than before, and an import that leaves the loop (score found,
\* superseded, time limit) has its loading flag false after the step.
C25_PollingEnds ==
  [][/\ \A i \in panel'.imports : i.phase # "import" => PollingWithinLimits(i)
     /\ \A i \in panel.imports, k \in panel'.imports :
          (i.phase # "import" /\ k.id = i.id) => k.delayMs >= i.delayMs
     /\ \A i \in panel.imports :
          (i.phase # "import" /\ \A k \in panel'.imports : k.id # i.id) =>
            ~LoadingFlag(panel', i)]_vars

\* The polling of an import ran into the time limit: the status line says so,
\* nothing is in flight and no flag is set.
C25_Witness ==
  /\ panel.status = Status("info", "Candidate saved successfully, but scoring is taking longer than expected")
  /\ panel.imports = {}
  /\ ~panel.isLoading /\ ~panel.isRescoreLoading

\* Run c of the extract effect belongs to an opening that was closed: its cleanup
\* has run, and the panel is closed or was opened again since.
Overtaken(c) == c \in 1..panel.closures /\ c # panel.live

\* C26: after the panel is closed (or closed and opened again), no step applies an
\* extraction of a run that began before the close or sets a timer for it; the step
\* in which such a run's pending timer fires leaves the profile data and the attempt
\* counter as they are and leaves the other timers pending.
C26_OvertakenRetryIsSilent ==
  [][\A c \in 1..panel.closures :
       Overtaken(c) =>
         /\ panel'.applied[c] = panel.applied[c]
         /\ c \notin panel.timers => c \notin panel'.timers
         /\ (c \in panel.timers /\ c \notin panel'.timers) =>
              /\ panel'.profileData = panel.profileData
              /\ panel'.profileExtractAttempts = panel.profileExtractAttempts
              /\ panel'.timers = panel.timers \ {c}]_vars

\* The page has not rendered the name, the panel was closed and opened again, and the
\* timer of the earlier opening has fired before that run used its attempts: the
\* attempts counted are those of the new opening alone.
C26_Witness ==
  /\ doc = EmptyDocument
  /\ panel.live # 0
  /\ panel.profileExtractAttempts = panel.applied[panel.live]
  /\ \E c \in 1..panel.closures :
       /\ Overtaken(c)
       /\ c \notin panel.timers
       /\ panel.applied[c] \in 1..(MaxAttempts - 1)

(***************************************************************************)
(* Claim C30: start and end periods come together                           *)
(***************************************************************************)

\* Entry e has a start period exactly when it has an end period.
BothOrNeither(e) == Truthy(e.start) <=> Truthy(e.end)

\* Every parenthesis opened in text is closed later on the same line.
ParenthesesClosed(text) ==
  \A i \in DOMAIN text :
    text[i] = "(" =>
      \E j \in (i + 1)..Len(text) :
        /\ text[j] = ")"
        /\ \A k \in i..j : text[k] # "\n"

\* C30: in every experience and education entry of an extracted profile the start
\* period is present exactly when the end period is, and in the flattened text
\* every parenthesis opened for a start period is closed on its line.
C30_PeriodsComeTogether ==
  (Extracted /\ ~out.threw) =>
    /\ \A i \in DOMAIN out.value.profile.experience :
         BothOrNeither(out.value.profile.experience[i])
    /\ \A i \in DOMAIN out.value.profile.education :
         BothOrNeither(out.value.profile.education[i])
    /\ ParenthesesClosed(out.value.rawText)

\* A position whose date cell holds a range was extracted: the entry has both
\* periods and its line of the flattened text holds them in parentheses.
C30_Witness ==
  /\ Extracted /\ ~out.threw
  /\ Len(out.value.profile.experience) = 1
  /\ Truthy(out.value.profile.experience[1].start)
  /\ Truthy(out.value.profile.experience[1].end)
  /\ \E i \in DOMAIN out.value.rawText : out.value.rawText[i] = "("

====
